---- MODULE Spec2Model ----
(***************************************************************************)
(* A model of handlejson: the safe serialization pipeline (stringify,      *)
(* tryStringify), the security-gated parse pipeline (parse,                *)
(* parseWithDetails, tryParse, isValid), format/minify and parseStream.    *)
(*                                                                         *)
(* JavaScript values are tagged records.  Composites of the caller's       *)
(* object graph live in `heap` and are named by reference (identity);      *)
(* composites that a call allocates itself (the decoder's result, the      *)
(* copy made by transformDatesForTimestamp) are written inline: each is a  *)
(* fresh object that nothing else refers to.  A JSON text is the sequence  *)
(* of its tokens.                                                          *)
(***************************************************************************)
EXTENDS Integers, Sequences, FiniteSets, TLC

\* ------------------------------------------------------------------ bounds
\* Composites in the caller's object graph.
MaxObj == 2
\* Fields and elements of the whole graph, together.
MaxEdges == 2
\* Frames of the JavaScript call stack (a deeper recursion raises RangeError).
MaxStack == 8
\* Nodes (leaves and composites) of a document given to the decoder.
MaxNodes == 3
\* Fragments a ReadableStream delivers.
MaxChunks == 2

VARIABLES
  heap,   \* the caller's object graph: id -> [kind, vals]
  sopts,  \* the StringifyOptions of this caller: [dates, replacer]
  seen,   \* contents of the WeakSet of the latest createCircularReplacer
  res,    \* the latest call: its operation, arguments and outcome
  strm    \* the parseStream call in progress on a ReadableStream

vars == <<heap, sopts, seen, res, strm>>

\* ------------------------------------------------------------------ values
Undef == [t |-> "undef"]
Null == [t |-> "null"]
Bool(b) == [t |-> "bool", b |-> b]
Num(n) == [t |-> "num", n |-> n]
Str(s) == [t |-> "str", s |-> s]
BigIntV(n) == [t |-> "bigint", n |-> n]
DateV(ms) == [t |-> "date", ms |-> ms]
Ref(i) == [t |-> "ref", id |-> i]
Arr(items) == [t |-> "arr", items |-> items]
Obj(fields) == [t |-> "obj", fields |-> fields]
Field(k, v) == [k |-> k, v |-> v]

\* typeof value === 'object' && value !== null
IsObject(v) == v.t \in {"ref", "arr", "obj", "date"}

Circular == Str("[Circular]")

\* The instants of the model are the first milliseconds of 1970, this one the
\* last.
MaxInstant == 120

\* A temporal value of the year 10000, new Date(Date.UTC(10000, 0, 1)).  Its
\* millisecond count, 253402300800000, is more than the integers of the model
\* hold; a negative count stands for it (the model has no instant before 1970).
FarDate == DateV(0 - 1)

\* Date.prototype.toISOString: four digits of year, or a sign and six digits
\* for a year outside 0..9999.
toISOString(ms) ==
  IF ms < 0 THEN "+010000-01-01T00:00:00.000Z"
  ELSE IF ms < 10 THEN "1970-01-01T00:00:00.00" \o ToString(ms) \o "Z"
  ELSE IF ms < 100 THEN "1970-01-01T00:00:00.0" \o ToString(ms) \o "Z"
  ELSE "1970-01-01T00:00:00." \o ToString(ms) \o "Z"

\* Property names of an object of the graph, in insertion order.
KeyNames == <<"a", "b", "c", "d", "e", "f">>

\* Array index as a property name.
IndexKey(i) == ToString(i - 1)

\* The (key, value) entries of a composite of the graph, in property order.
Entries(h, id) ==
  [i \in 1..Len(h[id].vals) |->
     Field(IF h[id].kind = "arr" THEN IndexKey(i) ELSE KeyNames[i], h[id].vals[i])]

\* ------------------------------------------------------------- JSON text
\* A JSON text is the sequence of its tokens.
Tok(c) == [c |-> c]
TStr(s) == [c |-> "str", s |-> s]
TNum(n) == [c |-> "num", n |-> n]

\* const x = value; ... : the value is computed once and named in what follows.
With(value, Body(_)) == CHOOSE r \in {Body(x) : x \in {value}} : TRUE

\* Results of a step that may throw.
Thrown(err, sn) == [thrown |-> TRUE, err |-> err, seen |-> sn]
Err(name, msg) == [name |-> name, msg |-> msg]

\* ------------------------------------------------- caller-supplied hooks
\* The replacers a caller passes as options.replacer.
Replacers == {"none", "redact", "remove", "toDate", "toBigint", "throw"}

\* customReplacer(key, value) for each of them.
customReplacer(rep, key, value) ==
  CASE rep = "redact" ->
         [thrown |-> FALSE, value |-> IF key = "a" THEN Str("[REDACTED]") ELSE value]
    [] rep = "remove" ->
         [thrown |-> FALSE, value |-> IF key = "a" THEN Undef ELSE value]
    [] rep = "toDate" ->
         [thrown |-> FALSE, value |-> IF key = "a" THEN DateV(7) ELSE value]
    [] rep = "toBigint" ->
         [thrown |-> FALSE, value |-> IF key = "a" THEN BigIntV(7) ELSE value]
    [] rep = "throw" ->
         IF key = "a" THEN [thrown |-> TRUE, err |-> Err("Error", "replacer")]
         ELSE [thrown |-> FALSE, value |-> value]
    [] rep = "typeof" ->
         [thrown |-> FALSE,
          value |-> IF key = "a"
                    THEN Arr(<<Str(CASE value.t = "str" -> "string"
                                     [] value.t = "num" -> "number"
                                     [] value.t = "bool" -> "boolean"
                                     [] value.t = "undef" -> "undefined"
                                     [] value.t = "bigint" -> "bigint"
                                     [] OTHER -> "object"),
                               value>>)
                    ELSE value]
    [] OTHER -> [thrown |-> FALSE, value |-> value]

\* --------------------------------------------------------- serialization
\* A WeakSet kept at module level and shared by every closure: what the last
\* call left in it.
sharedWeakSet == seen

\* const seen = new WeakSet(): the set a new replacer closure starts with.
createCircularReplacer == {}

\* The closure without seen.add(value): nothing is ever recorded.
circularReplacerWithoutAdd(rep, key, value0, sn) ==
  LET c == IF rep # "none" THEN customReplacer(rep, key, value0)
           ELSE [thrown |-> FALSE, value |-> value0]
  IN IF c.thrown THEN Thrown(c.err, sn)
     ELSE IF c.value.t = "bigint"
     THEN [thrown |-> FALSE, value |-> Str(ToString(c.value.n) \o "n"), seen |-> sn]
     ELSE IF c.value.t = "ref" /\ c.value.id \in sn
     THEN [thrown |-> FALSE, value |-> Circular, seen |-> sn]
     ELSE [thrown |-> FALSE, value |-> c.value, seen |-> sn]

\* The closure tracking plain objects only (an added !Array.isArray(value)).
circularReplacerArraysUntracked(rep, key, value0, sn) ==
  LET c == IF rep # "none" THEN customReplacer(rep, key, value0)
           ELSE [thrown |-> FALSE, value |-> value0]
      isArr == c.value.t = "ref" /\ (c.value.id % 2 = 0)
  IN IF c.thrown THEN Thrown(c.err, sn)
     ELSE IF c.value.t = "bigint"
     THEN [thrown |-> FALSE, value |-> Str(ToString(c.value.n) \o "n"), seen |-> sn]
     ELSE IF c.value.t = "ref" /\ ~isArr /\ c.value.id \in sn
     THEN [thrown |-> FALSE, value |-> Circular, seen |-> sn]
     ELSE [thrown |-> FALSE, value |-> c.value,
           seen |-> IF c.value.t = "ref" /\ ~isArr THEN sn \cup {c.value.id} ELSE sn]

\* The closure with seen.add(value) moved before seen.has(value).
circularReplacerAddsFirst(rep, key, value0, sn) ==
  LET c == IF rep # "none" THEN customReplacer(rep, key, value0)
           ELSE [thrown |-> FALSE, value |-> value0]
  IN IF c.thrown THEN Thrown(c.err, sn)
     ELSE IF c.value.t = "bigint"
     THEN [thrown |-> FALSE, value |-> Str(ToString(c.value.n) \o "n"), seen |-> sn]
     ELSE IF IsObject(c.value)
     THEN [thrown |-> FALSE, value |-> Circular,
           seen |-> IF c.value.t = "ref" THEN sn \cup {c.value.id} ELSE sn]
     ELSE [thrown |-> FALSE, value |-> c.value, seen |-> sn]

\* The closure createCircularReplacer returns, applied to (key, value) with
\* the WeakSet holding sn.  Only objects of the caller's graph can be met
\* twice; an inline composite or a Date made by this call is met once.
circularReplacer(rep, key, value0, sn) ==
  LET c == IF rep # "none" THEN customReplacer(rep, key, value0)
           ELSE [thrown |-> FALSE, value |-> value0]
  IN IF c.thrown THEN Thrown(c.err, sn)
     ELSE LET value == c.value
          IN IF value.t = "bigint"
             THEN [thrown |-> FALSE, value |-> Str(ToString(value.n) \o "n"), seen |-> sn]
             ELSE IF IsObject(value)
             THEN IF value.t = "ref" /\ value.id \in sn
                  THEN [thrown |-> FALSE, value |-> Circular, seen |-> sn]
                  ELSE [thrown |-> FALSE, value |-> value,
                        seen |-> IF value.t = "ref" THEN sn \cup {value.id} ELSE sn]
             ELSE [thrown |-> FALSE, value |-> value, seen |-> sn]

\* The entries of a composite value: of the graph (by reference) or inline.
EntriesOf(h, v) ==
  CASE v.t = "ref" -> Entries(h, v.id)
    [] v.t = "arr" -> [i \in 1..Len(v.items) |-> Field(IndexKey(i), v.items[i])]
    [] v.t = "obj" -> v.fields
    [] OTHER -> <<>>

IsArrayValue(h, v) ==
  \/ v.t = "arr"
  \/ v.t = "ref" /\ h[v.id].kind = "arr"

\* The encoder without its toJSON step: the value reaches the replacer as it is.
toJSONSkipped(value) == value

\* value.toJSON(key), the first step of SerializeJSONProperty: a Date answers
\* with toISOString(), the other values of the model have no toJSON.
toJSON(value) == IF value.t = "date" THEN Str(toISOString(value.ms)) ELSE value

\* JSON.stringify(value, replacer): SerializeJSONProperty of ECMA-262, with
\* the replacer function called on every (key, value) after toJSON, and the
\* encoder's own stack of the objects being serialized.
RECURSIVE SerializeJSONProperty(_, _, _, _, _, _)
RECURSIVE SerializeMembers(_, _, _, _, _, _, _, _)

SerializeJSONProperty(h, rep, key, value0, sn, stack) ==
  With(circularReplacer(rep, key, toJSON(value0), sn), LAMBDA r :
    IF r.thrown THEN r
    ELSE LET v == r.value
             leaf(toks) == [thrown |-> FALSE, defined |-> TRUE, toks |-> toks,
                            seen |-> r.seen]
         IN CASE v.t = "null" -> leaf(<<Tok("null")>>)
              [] v.t = "bool" -> leaf(<<Tok(IF v.b THEN "true" ELSE "false")>>)
              [] v.t = "str" -> leaf(<<TStr(v.s)>>)
              [] v.t = "num" -> leaf(<<TNum(v.n)>>)
              [] v.t = "bigint" ->
                   Thrown(Err("TypeError", "Do not know how to serialize a BigInt"), r.seen)
              [] v.t = "date" -> leaf(<<Tok("{"), Tok("}")>>)
              [] v.t = "undef" ->
                   [thrown |-> FALSE, defined |-> FALSE, toks |-> <<>>, seen |-> r.seen]
              [] OTHER ->
                   IF v.t = "ref" /\ v.id \in {stack[i] : i \in 1..Len(stack)}
                   THEN Thrown(Err("TypeError", "Converting circular structure to JSON"),
                               r.seen)
                   ELSE LET isArr == IsArrayValue(h, v)
                        IN With(SerializeMembers(h, rep, EntriesOf(h, v), isArr, 1, r.seen,
                                  Append(stack, IF v.t = "ref" THEN v.id ELSE 0), <<>>),
                                LAMBDA m :
                             IF m.thrown THEN m
                             ELSE [thrown |-> FALSE, defined |-> TRUE,
                                   toks |-> <<Tok(IF isArr THEN "[" ELSE "{")>> \o m.toks
                                            \o <<Tok(IF isArr THEN "]" ELSE "}")>>,
                                   seen |-> m.seen]))

SerializeMembers(h, rep, entries, isArr, i, sn, stack, acc) ==
  IF i > Len(entries)
  THEN [thrown |-> FALSE, defined |-> TRUE, toks |-> acc, seen |-> sn]
  ELSE With(SerializeJSONProperty(h, rep, entries[i].k, entries[i].v, sn, stack),
            LAMBDA p :
         LET sep == IF acc = <<>> THEN <<>> ELSE <<Tok(",")>>
         IN IF p.thrown THEN p
            ELSE IF p.defined
            THEN SerializeMembers(h, rep, entries, isArr, i + 1, p.seen, stack,
                   acc \o sep \o (IF isArr THEN <<>> ELSE <<TStr(entries[i].k), Tok(":")>>)
                       \o p.toks)
            ELSE IF isArr
            THEN SerializeMembers(h, rep, entries, isArr, i + 1, p.seen, stack,
                   acc \o sep \o <<Tok("null")>>)
            ELSE SerializeMembers(h, rep, entries, isArr, i + 1, p.seen, stack, acc))

\* transformDatesForTimestamp(value, seen): the copy of the graph made before
\* encoding in timestamp mode.  Returns the copy and the WeakSet afterwards.
RECURSIVE transformDatesForTimestamp(_, _, _, _)
RECURSIVE transformEntries(_, _, _, _, _, _)

\* transformDatesForTimestamp as it would be without the Array.isArray branch
\* mapping the items: an array is passed on with its elements as they are.
transformDatesSkippingArrays(h, value, sn, depth) ==
  IF depth > MaxStack
  THEN Thrown(Err("RangeError", "Maximum call stack size exceeded"), sn)
  ELSE IF value.t = "date"
  THEN [thrown |-> FALSE, value |-> Num(value.ms), seen |-> sn]
  ELSE IF value.t = "ref"
  THEN IF value.id \in sn
       THEN [thrown |-> FALSE, value |-> Circular, seen |-> sn]
       ELSE IF h[value.id].kind = "arr"
       THEN [thrown |-> FALSE, value |-> Arr(h[value.id].vals),
             seen |-> sn \cup {value.id}]
       ELSE With(transformEntries(h, Entries(h, value.id), 1, sn \cup {value.id},
                                  depth + 1, <<>>), LAMBDA m :
              IF m.thrown THEN m
              ELSE [thrown |-> FALSE, value |-> Obj(m.value), seen |-> m.seen])
  ELSE [thrown |-> FALSE, value |-> value, seen |-> sn]

transformDatesForTimestamp(h, value, sn, depth) ==
  IF depth > MaxStack
  THEN Thrown(Err("RangeError", "Maximum call stack size exceeded"), sn)
  ELSE IF value.t = "date"
  THEN [thrown |-> FALSE, value |-> Num(value.ms), seen |-> sn]
  ELSE IF value.t = "ref"
  THEN IF value.id \in sn
       THEN [thrown |-> FALSE, value |-> Circular, seen |-> sn]
       ELSE With(transformEntries(h, Entries(h, value.id), 1, sn \cup {value.id},
                                  depth + 1, <<>>), LAMBDA m :
              IF m.thrown THEN m
              ELSE [thrown |-> FALSE,
                    value |-> IF h[value.id].kind = "arr"
                              THEN Arr([i \in 1..Len(m.value) |-> m.value[i].v])
                              ELSE Obj(m.value),
                    seen |-> m.seen])
  ELSE [thrown |-> FALSE, value |-> value, seen |-> sn]

transformEntries(h, entries, i, sn, depth, acc) ==
  IF i > Len(entries)
  THEN [thrown |-> FALSE, value |-> acc, seen |-> sn]
  ELSE With(transformDatesForTimestamp(h, entries[i].v, sn, depth), LAMBDA r :
         IF r.thrown THEN r
         ELSE transformEntries(h, entries, i + 1, r.seen, depth,
                               Append(acc, Field(entries[i].k, r.value))))

\* The values of options.dates.
DateOptions == {"undefined", "false", "true", "iso", "timestamp"}

\* const datesEnabled = options?.dates !== undefined && options?.dates !== false
datesEnabled(dates) == dates \notin {"undefined", "false"}

\* const mode = options?.dates === true ? 'iso' : (options?.dates || 'iso')
mode(dates) ==
  IF dates = "true" THEN "iso"
  ELSE IF dates \in {"undefined", "false"} THEN "iso" ELSE dates

\* The body of stringify and of tryStringify inside their try blocks.
stringifyBody(h, value, opts) ==
  With(IF datesEnabled(opts.dates) /\ mode(opts.dates) = "timestamp"
       THEN transformDatesForTimestamp(h, value, {}, 1)
       ELSE [thrown |-> FALSE, value |-> value, seen |-> {}], LAMBDA pre :
    IF pre.thrown THEN pre
    ELSE SerializeJSONProperty(h, opts.replacer, "", pre.value,
                               createCircularReplacer, <<>>))

\* stringify(value, options): the text, undefined (nothing to encode), or
\* null when anything threw.
stringify(h, value, opts) ==
  With(stringifyBody(h, value, opts), LAMBDA r :
    IF r.thrown THEN [kind |-> "null", seen |-> r.seen]
    ELSE IF r.defined THEN [kind |-> "text", text |-> r.toks, seen |-> r.seen]
    ELSE [kind |-> "undefined", seen |-> r.seen])

\* tryStringify(value, options): [result, null] or [null, error].
tryStringify(h, value, opts) ==
  With(stringifyBody(h, value, opts), LAMBDA r :
    IF r.thrown THEN [kind |-> "error", error |-> r.err, seen |-> r.seen]
    ELSE IF r.defined THEN [kind |-> "text", text |-> r.toks, seen |-> r.seen]
    ELSE [kind |-> "undefined", seen |-> r.seen])


\* --------------------------------------------------------------- decoding
\* Characters a token takes in the text (json.length counts them).
Digits(n) == IF n < 10 THEN 1 ELSE IF n < 100 THEN 2 ELSE 3

TokWidth(tok) ==
  CASE tok.c = "str" -> Len(tok.s) + 2
    [] tok.c = "num" -> Digits(tok.n)
    [] tok.c \in {"null", "true"} -> 4
    [] tok.c = "false" -> 5
    [] OTHER -> 1

RECURSIVE TextLength(_)
TextLength(toks) ==
  IF toks = <<>> THEN 0 ELSE TokWidth(Head(toks)) + TextLength(Tail(toks))

\* Offset of token i in the text.
Offset(toks, i) == TextLength(SubSeq(toks, 1, i - 1))

\* CreateDataProperty on the object being built: a repeated key keeps its
\* place and takes the later value.
SetField(fields, k, v) ==
  IF \E i \in 1..Len(fields) : fields[i].k = k
  THEN [i \in 1..Len(fields) |-> IF fields[i].k = k THEN Field(k, v) ELSE fields[i]]
  ELSE Append(fields, Field(k, v))

\* JSON.parse(text) without a reviver: the value tree, or a SyntaxError at
\* the offending token (pos is its index, Len + 1 at the end of the input).
RECURSIVE ParseValue(_, _)
RECURSIVE ParseElements(_, _, _)
RECURSIVE ParseMembers(_, _, _)

ParseFail(i) == [ok |-> FALSE, pos |-> i]
ParseOk(v, next) == [ok |-> TRUE, value |-> v, next |-> next]

\* A number runs on through the digits that follow it directly: the text 11
\* arriving as 1 and 1 is the number 11.
RECURSIVE ScanNumber(_, _, _)
ScanNumber(toks, i, n) ==
  IF i <= Len(toks) /\ toks[i].c = "num"
  THEN ScanNumber(toks, i + 1,
         n * (IF toks[i].n < 10 THEN 10 ELSE IF toks[i].n < 100 THEN 100 ELSE 1000)
           + toks[i].n)
  ELSE ParseOk(Num(n), i)

ParseValue(toks, i) ==
  IF i > Len(toks) THEN ParseFail(i)
  ELSE LET tok == toks[i]
       IN CASE tok.c = "null" -> ParseOk(Null, i + 1)
            [] tok.c = "true" -> ParseOk(Bool(TRUE), i + 1)
            [] tok.c = "false" -> ParseOk(Bool(FALSE), i + 1)
            [] tok.c = "num" -> ScanNumber(toks, i + 1, tok.n)
            [] tok.c = "str" -> ParseOk(Str(tok.s), i + 1)
            [] tok.c = "[" ->
                 IF i + 1 <= Len(toks) /\ toks[i + 1].c = "]"
                 THEN ParseOk(Arr(<<>>), i + 2)
                 ELSE ParseElements(toks, i + 1, <<>>)
            [] tok.c = "{" ->
                 IF i + 1 <= Len(toks) /\ toks[i + 1].c = "}"
                 THEN ParseOk(Obj(<<>>), i + 2)
                 ELSE ParseMembers(toks, i + 1, <<>>)
            [] OTHER -> ParseFail(i)

ParseElements(toks, i, acc) ==
  LET e == ParseValue(toks, i)
  IN IF ~e.ok THEN e
     ELSE IF e.next > Len(toks) THEN ParseFail(e.next)
     ELSE IF toks[e.next].c = "," THEN ParseElements(toks, e.next + 1, Append(acc, e.value))
     ELSE IF toks[e.next].c = "]" THEN ParseOk(Arr(Append(acc, e.value)), e.next + 1)
     ELSE ParseFail(e.next)

ParseMembers(toks, i, acc) ==
  IF i > Len(toks) THEN ParseFail(i)
  ELSE IF toks[i].c # "str" THEN ParseFail(i)
  ELSE IF i + 1 > Len(toks) THEN ParseFail(i + 1)
  ELSE IF toks[i + 1].c # ":" THEN ParseFail(i + 1)
  ELSE LET m == ParseValue(toks, i + 2)
       IN IF ~m.ok THEN m
          ELSE IF m.next > Len(toks) THEN ParseFail(m.next)
          ELSE IF toks[m.next].c = ","
          THEN ParseMembers(toks, m.next + 1, SetField(acc, toks[i].s, m.value))
          ELSE IF toks[m.next].c = "}"
          THEN ParseOk(Obj(SetField(acc, toks[i].s, m.value)), m.next + 1)
          ELSE ParseFail(m.next)

\* The whole text must be one value.
JSONparse(toks) ==
  LET r == ParseValue(toks, 1)
  IN IF ~r.ok THEN r
     ELSE IF r.next <= Len(toks) THEN ParseFail(r.next)
     ELSE r

\* The instants of the model, and the texts Date reads back as them.
Instants == 0..MaxInstant

\* A text of the shape ISO_DATE_REGEX accepts that names no instant: new Date
\* of it is an invalid Date.
NoInstant == "2023-13-45T00:00:00Z"

\* ISO_DATE_REGEX.test(value) with the length guard, and new Date(value).
IsIsoDate(s) == \E ms \in Instants : toISOString(ms) = s
DateOf(s) == DateV(CHOOSE ms \in Instants : toISOString(ms) = s)

\* The revivers a caller passes as options.reviver.
Revivers == {"none", "identity", "throw", "wrap"}

\* (key, value) => value, => { throw ... }, => [value]
customReviver(rv, key, value) ==
  IF rv = "throw" THEN [thrown |-> TRUE, err |-> Err("Error", "reviver")]
  ELSE IF rv = "wrap" THEN [thrown |-> FALSE, value |-> Arr(<<value>>)]
  ELSE [thrown |-> FALSE, value |-> value]

\* The closure of createDateReviver as it would be if datesEnabled were
\* `dateMode === 'iso' || dateMode === 'timestamp'`: dates: true reads nothing.
dateReviverModesOnly(rv, dates, key, value) ==
  IF dates \in {"iso", "timestamp"} /\ value.t = "str" /\ IsIsoDate(value.s)
  THEN IF rv # "none" THEN customReviver(rv, key, DateOf(value.s))
       ELSE [thrown |-> FALSE, value |-> DateOf(value.s)]
  ELSE IF rv # "none" THEN customReviver(rv, key, value)
       ELSE [thrown |-> FALSE, value |-> value]

\* The closure of createDateReviver as it would be if the custom reviver ran
\* first, on the decoded value, and the date check on what it returned.
dateReviverCustomFirst(rv, dates, key, value) ==
  With(IF rv # "none" THEN customReviver(rv, key, value)
       ELSE [thrown |-> FALSE, value |-> value], LAMBDA c :
    IF c.thrown THEN c
    ELSE IF datesEnabled(dates) /\ c.value.t = "str" /\ IsIsoDate(c.value.s)
    THEN [thrown |-> FALSE, value |-> DateOf(c.value.s)]
    ELSE c)

\* The closure createDateReviver returns, applied to (key, value).
dateReviver(rv, dates, key, value) ==
  IF datesEnabled(dates) /\ value.t = "str" /\ IsIsoDate(value.s)
  THEN IF rv # "none" THEN customReviver(rv, key, DateOf(value.s))
       ELSE [thrown |-> FALSE, value |-> DateOf(value.s)]
  ELSE IF rv # "none" THEN customReviver(rv, key, value)
       ELSE [thrown |-> FALSE, value |-> value]

\* options?.dates || options?.reviver ? createDateReviver(...) : options?.reviver
HasReviver(rv, dates) == dates \in {"true", "iso", "timestamp"} \/ rv # "none"

\* InternalizeJSONProperty of ECMA-262: children first, in property order,
\* then the reviver on the node itself.
RECURSIVE Internalize(_, _, _, _)
RECURSIVE InternalizeChildren(_, _, _, _, _)

Internalize(rv, dates, key, val) ==
  IF val.t \in {"arr", "obj"}
  THEN LET isArr == val.t = "arr"
           c == InternalizeChildren(rv, dates, EntriesOf(<<>>, val), 1, <<>>)
       IN IF c.thrown THEN c
          ELSE dateReviver(rv, dates, key,
                 IF isArr THEN Arr([i \in 1..Len(c.value) |-> c.value[i].v])
                 ELSE Obj(SelectSeq(c.value, LAMBDA f : f.v.t # "undef")))
  ELSE dateReviver(rv, dates, key, val)

InternalizeChildren(rv, dates, entries, i, acc) ==
  IF i > Len(entries) THEN [thrown |-> FALSE, value |-> acc]
  ELSE LET r == Internalize(rv, dates, entries[i].k, entries[i].v)
       IN IF r.thrown THEN r
          ELSE InternalizeChildren(rv, dates, entries, i + 1,
                                   Append(acc, Field(entries[i].k, r.value)))

\* The SyntaxError of the decoder: its message names the offset of the
\* offending token, and no offset when the input ends too early.
SyntaxError(toks, pos) ==
  IF pos <= Len(toks)
  THEN [name |-> "SyntaxError", msg |-> "Unexpected token in JSON at position",
        at |-> Offset(toks, pos)]
  ELSE Err("SyntaxError", "Unexpected end of JSON input")

\* JSON.parse(value, reviver)
decode(toks, rv, dates) ==
  With(JSONparse(toks), LAMBDA r :
    IF ~r.ok
    THEN [thrown |-> TRUE, err |-> SyntaxError(toks, r.pos), revived |-> FALSE]
    ELSE IF HasReviver(rv, dates)
    THEN With(Internalize(rv, dates, "", r.value), LAMBDA v :
           IF v.thrown THEN [thrown |-> TRUE, err |-> v.err, revived |-> TRUE]
           ELSE [thrown |-> FALSE, value |-> v.value, revived |-> TRUE])
    ELSE [thrown |-> FALSE, value |-> r.value, revived |-> FALSE])

\* ------------------------------------------------------- schema validator
\* A schema maps field names to a type tag or to a nested schema.
TypeTag(tag) == [t |-> "type", v |-> tag]
Nested(fields) == [t |-> "schema", fields |-> fields]
NoSchema == [t |-> "undef"]

\* getType(value)
getType(value) ==
  CASE value.t = "null" -> "object"
    [] value.t = "arr" -> "array"
    [] value.t = "str" -> "string"
    [] value.t = "num" -> "number"
    [] value.t = "bool" -> "boolean"
    [] value.t = "undef" -> "undefined"
    [] value.t = "bigint" -> "bigint"
    [] OTHER -> "object"

\* validateType(value, expectedType)
validateType(value, expectedType) == getType(value) = expectedType

\* obj[key]
Lookup(obj, key) ==
  IF \E i \in 1..Len(obj.fields) : obj.fields[i].k = key
  THEN obj.fields[CHOOSE i \in 1..Len(obj.fields) : obj.fields[i].k = key].v
  ELSE Undef

\* typeof value !== 'object' || value === null || Array.isArray(value)
NotPlainObject(value) == value.t \notin {"obj", "date"}

\* A schema written as an array, [T]: to the validator an object like any
\* other, whose one key is the index "0".
ArraySchema(item) == [t |-> "array", item |-> item]

\* Object.keys(schema), each with schema[key]
SchemaEntries(schema) ==
  IF schema.t = "array" THEN <<Field("0", schema.item)>> ELSE schema.fields

\* The [false, new Error(message)] that validate returns, with the parts the
\* message is put together from: the keys of the `Field "key": ` prefixes, the
\* expected and the actual type.
Invalid(at, expected, actual, message) ==
  [valid |-> FALSE, message |-> message, at |-> at, expected |-> expected,
   actual |-> actual]

\* [true, null]
Valid == [valid |-> TRUE, message |-> "", at |-> <<>>, expected |-> "", actual |-> ""]

\* validate(value, schema): [valid, error]
RECURSIVE validate(_, _)
RECURSIVE validateFields(_, _, _)

\* The loop of validate as it would be if it went through all the keys and
\* kept the error of the last failing one.
RECURSIVE validateFieldsLastFailure(_, _, _)
validateFieldsLastFailure(obj, fields, i) ==
  IF i > Len(fields) THEN Valid
  ELSE With(validateFieldsLastFailure(obj, fields, i + 1), LAMBDA rest :
    IF ~rest.valid THEN rest
    ELSE LET key == fields[i].k
             schemaValue == fields[i].v
             objValue == Lookup(obj, key)
         IN IF schemaValue.t = "type"
            THEN IF ~validateType(objValue, schemaValue.v)
                 THEN Invalid(<<key>>, schemaValue.v, getType(objValue),
                              "Field \"" \o key \o "\": expected " \o schemaValue.v
                              \o ", got " \o getType(objValue))
                 ELSE Valid
            ELSE IF NotPlainObject(objValue)
                 THEN Invalid(<<key>>, "object", getType(objValue),
                              "Field \"" \o key \o "\": expected object, got "
                              \o getType(objValue))
                 ELSE With(validate(objValue, schemaValue), LAMBDA n :
                        IF ~n.valid
                        THEN Invalid(<<key>> \o n.at, n.expected, n.actual,
                                     "Field \"" \o key \o "\": " \o n.message)
                        ELSE Valid))

validate(value, schema) ==
  IF NotPlainObject(value)
  THEN Invalid(<<>>, "object", getType(value), "Expected object, got " \o getType(value))
  ELSE validateFields(IF value.t = "date" THEN Obj(<<>>) ELSE value,
                      SchemaEntries(schema), 1)

validateFields(obj, fields, i) ==
  IF i > Len(fields) THEN Valid
  ELSE LET key == fields[i].k
           schemaValue == fields[i].v
           objValue == Lookup(obj, key)
       IN IF schemaValue.t = "type"
          THEN IF ~validateType(objValue, schemaValue.v)
               THEN Invalid(<<key>>, schemaValue.v, getType(objValue),
                            "Field \"" \o key \o "\": expected " \o schemaValue.v
                            \o ", got " \o getType(objValue))
               ELSE validateFields(obj, fields, i + 1)
          ELSE IF NotPlainObject(objValue)
               THEN Invalid(<<key>>, "object", getType(objValue),
                            "Field \"" \o key \o "\": expected object, got "
                            \o getType(objValue))
               ELSE With(validate(objValue, schemaValue), LAMBDA n :
                      IF ~n.valid
                      THEN Invalid(<<key>> \o n.at, n.expected, n.actual,
                                   "Field \"" \o key \o "\": " \o n.message)
                      ELSE validateFields(obj, fields, i + 1))

\* ---------------------------------------------------------- parse pipeline
\* validateInputSize(json, maxSize) throws
validateInputSize(toks, maxSize) == TextLength(toks) > maxSize

\* checkDepth as it would be if only containers were measured: a leaf below
\* the deepest allowed container passes.
RECURSIVE checkDepthContainersOnly(_, _, _)
checkDepthContainersOnly(obj, currentDepth, maxDepth) ==
  /\ obj.t \in {"arr", "obj"}
  /\ \/ currentDepth > maxDepth
     \/ \E i \in 1..Len(EntriesOf(<<>>, obj)) :
          checkDepthContainersOnly(EntriesOf(<<>>, obj)[i].v, currentDepth + 1, maxDepth)

\* checkDepth(obj, currentDepth, maxDepth) throws
RECURSIVE checkDepth(_, _, _)
checkDepth(obj, currentDepth, maxDepth) ==
  \/ currentDepth > maxDepth
  \/ /\ obj.t \in {"arr", "obj"}
     /\ \E i \in 1..Len(EntriesOf(<<>>, obj)) :
          checkDepth(EntriesOf(<<>>, obj)[i].v, currentDepth + 1, maxDepth)

DangerousKeys == {"__proto__", "constructor", "prototype"}

\* sanitizeKeys as it would be without the Array.isArray branch: an array is
\* returned as it is, the objects inside it unvisited.
RECURSIVE sanitizeKeysSkippingArrays(_, _)
sanitizeKeysSkippingArrays(obj, safeKeys) ==
  IF ~safeKeys \/ obj.t # "obj"
  THEN [value |-> obj, same |-> TRUE]
  ELSE LET kept == SelectSeq(obj.fields, LAMBDA f : f.k \notin DangerousKeys)
       IN [value |-> Obj([i \in 1..Len(kept) |->
                            Field(kept[i].k,
                                  sanitizeKeysSkippingArrays(kept[i].v, safeKeys).value)]),
           same |-> FALSE]

\* The number NaN, which a reviver can put into the decoded tree.
NaN == [t |-> "nan"]

\* sanitized !== original, for the result r of sanitizing a child: another
\* reference, or the one value that is not identical to itself.
NotIdentical(r) == ~r.same \/ r.value = NaN

\* sanitizeKeys(obj, safeKeys): the value returned, and whether it is the
\* very object passed in (same) or a container built by this call.
RECURSIVE sanitizeKeys(_, _)
sanitizeKeys(obj, safeKeys) ==
  IF ~safeKeys \/ obj.t \notin {"arr", "obj"}
  THEN [value |-> obj, same |-> TRUE]
  ELSE IF obj.t = "arr"
  THEN LET sanitized == [i \in 1..Len(obj.items) |-> sanitizeKeys(obj.items[i], safeKeys)]
       IN IF \E i \in 1..Len(obj.items) : NotIdentical(sanitized[i])
          THEN [value |-> Arr([i \in 1..Len(obj.items) |-> sanitized[i].value]),
                same |-> FALSE]
          ELSE [value |-> obj, same |-> TRUE]
  ELSE LET kept == SelectSeq(obj.fields, LAMBDA f : f.k \notin DangerousKeys)
           sanitized == [i \in 1..Len(kept) |-> sanitizeKeys(kept[i].v, safeKeys)]
           hasDangerousKeys ==
             \/ Len(kept) # Len(obj.fields)
             \/ \E i \in 1..Len(kept) : NotIdentical(sanitized[i])
       IN IF hasDangerousKeys
          THEN [value |-> Obj([i \in 1..Len(kept) |-> Field(kept[i].k, sanitized[i].value)]),
                same |-> FALSE]
          ELSE [value |-> obj, same |-> TRUE]

\* The try block that parse and parseWithDetails share: the stages in the
\* order of the code, each appended to the trace when it runs.  stage is
\* "ok" or the stage that failed.
Failed(stage, err, trace) == [stage |-> stage, err |-> err, trace |-> trace]

\* The try block with the size gate moved behind the decoder and the depth
\* gate: the same checks, in another order.
pipelineSizeGateLast(toks, opts) ==
  LET d == decode(toks, opts.reviver, opts.dates)
      t2 == <<"decode">> \o (IF d.revived THEN <<"reviver">> ELSE <<>>)
  IN IF d.thrown THEN Failed("decode", d.err, t2)
     ELSE
  LET t3 == t2 \o (IF opts.maxDepth.t # "undef" THEN <<"depth">> ELSE <<>>)
  IN IF opts.maxDepth.t # "undef" /\ checkDepth(d.value, 0, opts.maxDepth.n)
     THEN Failed("depth",
                 Err("Error", "Maximum depth " \o ToString(opts.maxDepth.n) \o " exceeded"),
                 t3)
     ELSE
  LET t4 == t3 \o (IF opts.maxSize.t # "undef" THEN <<"size">> ELSE <<>>)
  IN IF opts.maxSize.t # "undef" /\ validateInputSize(toks, opts.maxSize.n)
     THEN Failed("size",
                 Err("Error", "Input size " \o ToString(TextLength(toks))
                     \o " exceeds maximum " \o ToString(opts.maxSize.n) \o " bytes"), t4)
     ELSE
  LET sanitized == IF opts.safeKeys THEN sanitizeKeys(d.value, TRUE).value ELSE d.value
      t5 == t4 \o (IF opts.safeKeys THEN <<"sanitize">> ELSE <<>>)
      v == IF opts.schema.t # "undef" THEN validate(sanitized, opts.schema)
           ELSE Valid
      t6 == t5 \o (IF opts.schema.t # "undef" THEN <<"validate">> ELSE <<>>)
  IN IF ~v.valid
     THEN [stage |-> "schema", err |-> Err("Error", v.message), trace |-> t6,
           value |-> sanitized]
     ELSE [stage |-> "ok", value |-> sanitized, trace |-> t6]

\* The pipeline as it would be if the validator were handed the decoded tree
\* instead of the sanitized one.
pipelineValidatesDecoded(toks, opts) ==
  LET t1 == IF opts.maxSize.t # "undef" THEN <<"size">> ELSE <<>>
  IN IF opts.maxSize.t # "undef" /\ validateInputSize(toks, opts.maxSize.n)
     THEN Failed("size",
                 Err("Error", "Input size " \o ToString(TextLength(toks))
                     \o " exceeds maximum " \o ToString(opts.maxSize.n) \o " bytes"), t1)
     ELSE With(decode(toks, opts.reviver, opts.dates), LAMBDA d :
  LET t2 == t1 \o <<"decode">> \o (IF d.revived THEN <<"reviver">> ELSE <<>>)
  IN IF d.thrown
     THEN Failed("decode", d.err, t2)
     ELSE
  LET t3 == t2 \o (IF opts.maxDepth.t # "undef" THEN <<"depth">> ELSE <<>>)
  IN IF opts.maxDepth.t # "undef" /\ checkDepth(d.value, 0, opts.maxDepth.n)
     THEN Failed("depth",
                 Err("Error", "Maximum depth " \o ToString(opts.maxDepth.n) \o " exceeded"),
                 t3)
     ELSE With(IF opts.safeKeys THEN sanitizeKeys(d.value, TRUE).value ELSE d.value,
               LAMBDA sanitized :
  LET t4 == t3 \o (IF opts.safeKeys THEN <<"sanitize">> ELSE <<>>)
      t5 == t4 \o (IF opts.schema.t # "undef" THEN <<"validate">> ELSE <<>>)
  IN With(IF opts.schema.t # "undef" THEN validate(d.value, opts.schema)
          ELSE Valid, LAMBDA v :
     IF ~v.valid
     THEN [stage |-> "schema", err |-> Err("Error", v.message), trace |-> t5,
           value |-> sanitized]
     ELSE [stage |-> "ok", value |-> sanitized, trace |-> t5])))

pipeline(toks, opts) ==
  LET t1 == IF opts.maxSize.t # "undef" THEN <<"size">> ELSE <<>>
  IN IF opts.maxSize.t # "undef" /\ validateInputSize(toks, opts.maxSize.n)
     THEN Failed("size",
                 Err("Error", "Input size " \o ToString(TextLength(toks))
                     \o " exceeds maximum " \o ToString(opts.maxSize.n) \o " bytes"), t1)
     ELSE With(decode(toks, opts.reviver, opts.dates), LAMBDA d :
  LET t2 == t1 \o <<"decode">> \o (IF d.revived THEN <<"reviver">> ELSE <<>>)
  IN IF d.thrown
     THEN Failed("decode", d.err, t2)
     ELSE
  LET t3 == t2 \o (IF opts.maxDepth.t # "undef" THEN <<"depth">> ELSE <<>>)
  IN IF opts.maxDepth.t # "undef" /\ checkDepth(d.value, 0, opts.maxDepth.n)
     THEN Failed("depth",
                 Err("Error", "Maximum depth " \o ToString(opts.maxDepth.n) \o " exceeded"),
                 t3)
     ELSE With(IF opts.safeKeys THEN sanitizeKeys(d.value, TRUE).value ELSE d.value,
               LAMBDA sanitized :
  LET t4 == t3 \o (IF opts.safeKeys THEN <<"sanitize">> ELSE <<>>)
      t5 == t4 \o (IF opts.schema.t # "undef" THEN <<"validate">> ELSE <<>>)
  IN With(IF opts.schema.t # "undef" THEN validate(sanitized, opts.schema)
          ELSE Valid, LAMBDA v :
     IF ~v.valid
     THEN [stage |-> "schema", err |-> Err("Error", v.message), trace |-> t5,
           value |-> sanitized]
     ELSE [stage |-> "ok", value |-> sanitized, trace |-> t5])))

\* options?.default ?? null
defaultOrNull(opts) == IF opts.default.t \in {"undef", "null"} THEN Null ELSE opts.default

\* parse as it would be if the schema check only logged: the decoded value is
\* returned although the validator rejected it.
parseKeepingInvalid(toks, opts) ==
  With(pipeline(toks, opts), LAMBDA r :
    [value |-> IF r.stage \in {"ok", "schema"} THEN r.value ELSE defaultOrNull(opts),
     stage |-> r.stage, trace |-> r.trace])

\* parse(value, options)
parse(toks, opts) ==
  With(pipeline(toks, opts), LAMBDA r :
    [value |-> IF r.stage = "ok" THEN r.value ELSE defaultOrNull(opts),
     stage |-> r.stage, trace |-> r.trace])


\* extractPosition(error): the offset the message names, if any.
extractPosition(err) == IF "at" \in DOMAIN err THEN Num(err.at) ELSE Undef

\* getContext(json, position): the excerpt of the text around the offset.
getContext(toks, position) ==
  LET at == {i \in 1..Len(toks) : Offset(toks, i) <= position.n}
      i == IF at = {} THEN 1 ELSE CHOOSE j \in at : \A k \in at : k <= j
      lo == IF i > 1 THEN i - 1 ELSE 1
      hi == IF i < Len(toks) THEN i + 1 ELSE Len(toks)
  IN [t |-> "excerpt", toks |-> SubSeq(toks, lo, hi)]

\* formatError(error, position, context)
formatError(err, position, context) ==
  IF position.t = "undef" THEN "Invalid JSON: " \o err.msg
  ELSE "Invalid JSON at position " \o ToString(position.n) \o ": " \o err.msg

\* parseWithDetails as it would be if its catch block always reported an
\* offset, 0 when the message names none.
parseWithDetailsAlwaysPositioned(toks, opts) ==
  With(pipeline(toks, opts), LAMBDA r :
    IF r.stage = "ok"
    THEN [success |-> TRUE, data |-> r.value, stage |-> r.stage, trace |-> r.trace]
    ELSE IF r.stage = "schema"
    THEN [success |-> FALSE, error |-> r.err.msg, position |-> Undef, context |-> Undef,
          stage |-> r.stage, trace |-> r.trace]
    ELSE LET found == extractPosition(r.err)
             position == IF found.t = "undef" THEN Num(0) ELSE found
             context == getContext(toks, position)
         IN [success |-> FALSE, error |-> formatError(r.err, position, context),
             position |-> position, context |-> context,
             stage |-> r.stage, trace |-> r.trace])

\* parseWithDetails(value, options)
parseWithDetails(toks, opts) ==
  With(pipeline(toks, opts), LAMBDA r :
    IF r.stage = "ok"
    THEN [success |-> TRUE, data |-> r.value, stage |-> r.stage, trace |-> r.trace]
    ELSE IF r.stage = "schema"
    THEN [success |-> FALSE, error |-> r.err.msg, position |-> Undef, context |-> Undef,
          stage |-> r.stage, trace |-> r.trace]
    ELSE LET position == extractPosition(r.err)
             context == IF position.t # "undef" THEN getContext(toks, position) ELSE Undef
         IN [success |-> FALSE, error |-> formatError(r.err, position, context),
             position |-> position, context |-> context,
             stage |-> r.stage, trace |-> r.trace])

\* tryParse(value, reviver, dates): [result, null] or [null, error]
tryParse(toks, rv, dates) ==
  With(decode(toks, rv, dates), LAMBDA d :
    IF d.thrown THEN [value |-> Null, error |-> d.err]
    ELSE [value |-> d.value, error |-> Null])

\* isValid(value)
isValid(toks) == JSONparse(toks).ok


\* ------------------------------------------------------------ parseStream
\* const chunkSize = options?.chunkSize ?? 1024 * 1024
DefaultChunkSize == 1048576
chunkSizeOf(opts) == IF opts.chunkSize.t = "undef" THEN DefaultChunkSize ELSE opts.chunkSize.n

\* The text buffer: whole tokens, and whether it ends inside a token.
Buffer(toks, partial) == [toks |-> toks, partial |-> partial]

\* The first n characters of a text.
PrefixByChars(toks, n) ==
  LET whole == {k \in 0..Len(toks) : TextLength(SubSeq(toks, 1, k)) <= n}
      k == CHOOSE j \in whole : \A i \in whole : i <= j
  IN Buffer(SubSeq(toks, 1, k), k < Len(toks) /\ TextLength(SubSeq(toks, 1, k)) < n)

\* JSON.parse(text) of the buffer: a token cut short never decodes.
parseBuffer(buf) ==
  IF buf.partial THEN [ok |-> FALSE, err |-> Err("SyntaxError", "Unexpected end of JSON input")]
  ELSE LET r == JSONparse(buf.toks)
       IN IF r.ok THEN [ok |-> TRUE, value |-> r.value]
          ELSE [ok |-> FALSE, err |-> SyntaxError(buf.toks, r.pos)]

\* The callbacks a caller passes as onProgress and onError.
Callbacks == {"none", "ok", "throw"}

\* A progress hook that falls silent after its first report.
reportProgressOnce(opts, buf, progress) ==
  IF opts.onProgress # "none" /\ progress = <<>> /\ parseBuffer(buf).ok
  THEN <<parseBuffer(buf).value>>
  ELSE progress

\* if (options?.onProgress) { try { partial = JSON.parse(text);
\* options.onProgress(partial) } catch { } }: the calls made so far.
reportProgress(opts, buf, progress) ==
  IF opts.onProgress # "none" /\ parseBuffer(buf).ok
  THEN Append(progress, parseBuffer(buf).value)
  ELSE progress

\* An end of parseStream that an exception of onProgress reaches: it takes the
\* place of the failure.
finishProgressEscapes(opts, buf, failure, progress) ==
  LET escaped == opts.onProgress = "throw" /\ progress # <<>>
      err == IF escaped THEN Err("Error", "onProgress") ELSE
             IF failure.name # "none" THEN failure ELSE
             IF parseBuffer(buf).ok THEN failure ELSE parseBuffer(buf).err
  IN IF err.name = "none"
     THEN [kind |-> "resolved", data |-> parseBuffer(buf).value, error |-> Null,
           complete |-> TRUE, progress |-> progress, onError |-> <<>>]
     ELSE IF opts.onError = "throw"
     THEN [kind |-> "rejected", reason |-> Err("Error", "onError"),
           progress |-> progress, onError |-> <<err>>]
     ELSE [kind |-> "resolved", data |-> Null, error |-> err, complete |-> FALSE,
           progress |-> progress,
           onError |-> IF opts.onError = "none" THEN <<>> ELSE <<err>>]

\* The end of parseStream: the final JSON.parse(text) after the loop, or the
\* catch block when something threw (failure is that error, else "none").
finish(opts, buf, failure, progress) ==
  LET p == parseBuffer(buf)
      failed == failure.name # "none" \/ ~p.ok
      err == IF failure.name # "none" THEN failure ELSE p.err
  IN IF ~failed
     THEN [kind |-> "resolved", data |-> p.value, error |-> Null, complete |-> TRUE,
           progress |-> progress, onError |-> <<>>]
     ELSE IF opts.onError = "throw"
     THEN [kind |-> "rejected", reason |-> Err("Error", "onError"),
           progress |-> progress, onError |-> <<err>>]
     ELSE [kind |-> "resolved", data |-> Null, error |-> err, complete |-> FALSE,
           progress |-> progress,
           onError |-> IF opts.onError = "none" THEN <<>> ELSE <<err>>]

NoFailure == [name |-> "none", msg |-> ""]

\* The loop over stream.match(new RegExp(`.{1,${chunkSize}}`, 'gs')) || []
RECURSIVE feedString(_, _, _, _)
feedString(toks, opts, k, progress) ==
  IF (k - 1) * chunkSizeOf(opts) >= TextLength(toks) THEN progress
  ELSE feedString(toks, opts, k + 1,
         reportProgress(opts, PrefixByChars(toks, k * chunkSizeOf(opts)), progress))

\* parseStream(stream, options) for a string: what the promise settles to.
\* new RegExp(`.{1,${chunkSize}}`, 'gs') throws a SyntaxError for a chunk size
\* below 1 ("numbers out of order in {} quantifier"), inside the outer try.
parseStreamString(toks, opts) ==
  IF chunkSizeOf(opts) < 1
  THEN finish(opts, Buffer(<<>>, FALSE),
              Err("SyntaxError", "Invalid regular expression"), <<>>)
  ELSE finish(opts, Buffer(toks, FALSE), NoFailure, feedString(toks, opts, 1, <<>>))

Idle == [pc |-> "idle"]

\* ----------------------------------------------------------------- inputs
SeqsUpTo(S, n) == UNION {[1..k -> S] : k \in 0..n}

\* The caller's object graphs: MaxObj composites (objects at odd ids, arrays
\* at even ids) with at most MaxEdges fields and elements in all; a value is
\* a leaf or a reference to a composite, so graphs share and cycle.
HeapLeaves == {Num(1), Str("s"), DateV(5)}
HeapVals == HeapLeaves \cup {Ref(i) : i \in 1..MaxObj}
KindOf(i) == IF i % 2 = 1 THEN "obj" ELSE "arr"

RECURSIVE HeapsUpTo(_, _)
HeapsUpTo(n, e) ==
  IF n = 0 THEN {<<>>}
  ELSE UNION {{Append(h, [kind |-> KindOf(n), vals |-> s]) :
                 h \in HeapsUpTo(n - 1, e - Len(s))} : s \in SeqsUpTo(HeapVals, e)}

Heaps == HeapsUpTo(MaxObj, MaxEdges)
EmptyHeap == [i \in 1..MaxObj |-> [kind |-> KindOf(i), vals |-> <<>>]]

StringifyOptions == [dates : DateOptions, replacer : Replacers]

\* The documents given to the decoder: every JSON tree of at most MaxNodes
\* nodes over two leaves and four keys (no key twice in an object), encoded,
\* and malformed texts made from the small ones.
JLeaves == {Num(1), Str("s")}
JKeys == {"a", "__proto__", "constructor", "prototype"}

RECURSIVE Size(_)
RECURSIVE SizeAll(_)
Size(v) ==
  CASE v.t = "arr" -> 1 + SizeAll(v.items)
    [] v.t = "obj" -> 1 + SizeAll([i \in 1..Len(v.fields) |-> v.fields[i].v])
    [] OTHER -> 1
SizeAll(vs) == IF vs = <<>> THEN 0 ELSE Size(Head(vs)) + SizeAll(Tail(vs))

RECURSIVE TreesUpTo(_)
RECURSIVE ItemsUpTo(_)
RECURSIVE FieldsUpTo(_, _)
TreesUpTo(n) ==
  IF n <= 0 THEN {}
  ELSE JLeaves \cup {Arr(f) : f \in ItemsUpTo(n - 1)}
               \cup {Obj(f) : f \in FieldsUpTo(n - 1, {})}
ItemsUpTo(n) ==
  {<<>>} \cup UNION {{<<v>> \o f : f \in ItemsUpTo(n - Size(v))} : v \in TreesUpTo(n)}
FieldsUpTo(n, used) ==
  {<<>>} \cup UNION {{<<Field(k, v)>> \o f : f \in FieldsUpTo(n - Size(v), used \cup {k})} :
                       <<k, v>> \in (JKeys \ used) \X TreesUpTo(n)}

\* The text of a JSON tree.
Encode(v) == SerializeJSONProperty(<<>>, "none", "", v, {}, <<>>).toks

ValidTexts == {Encode(v) : v \in TreesUpTo(MaxNodes)}
MalformedTexts ==
  {SubSeq(Encode(v), 1, Len(Encode(v)) - 1) : v \in TreesUpTo(2)}
    \cup {Append(Encode(v), Tok("}")) : v \in TreesUpTo(1)}
Texts == ValidTexts \cup MalformedTexts

SchemaA == Nested(<<Field("a", TypeTag("number"))>>)
\* A schema that asks for a field under a key the sanitizer strips.
SchemaP == Nested(<<Field("prototype", TypeTag("number"))>>)

ParseOptions ==
  [maxSize : {Undef, Num(8)}, maxDepth : {Undef, Num(1)}, safeKeys : BOOLEAN,
   schema : {NoSchema, SchemaA, SchemaP}, default : {Undef, Null, Str("dflt")},
   reviver : {"none", "throw"}, dates : {"undefined"}]

\* ------------------------------------------------------------ the machine
NoCall == [op |-> "none"]

\* The parse entry points, each applied once to a text and options.
Init ==
  /\ heap = EmptyHeap
  /\ sopts = [dates |-> "undefined", replacer |-> "none"]
  /\ seen = {}
  /\ res = NoCall
  /\ strm = Idle

Parse ==
  /\ res.op = "none"
  /\ \E toks \in Texts, opts \in ParseOptions :
       res' = [op |-> "parse", text |-> toks, opts |-> opts, out |-> parse(toks, opts)]
  /\ UNCHANGED <<heap, sopts, seen, strm>>

ParseWithDetails ==
  /\ res.op = "none"
  /\ \E toks \in Texts, opts \in ParseOptions :
       res' = [op |-> "parseWithDetails", text |-> toks, opts |-> opts,
               out |-> parseWithDetails(toks, opts)]
  /\ UNCHANGED <<heap, sopts, seen, strm>>

TryParse ==
  /\ res.op = "none"
  /\ \E toks \in Texts, rv \in {"none", "throw"} :
       res' = [op |-> "tryParse", text |-> toks, reviver |-> rv,
               out |-> tryParse(toks, rv, "undefined")]
  /\ UNCHANGED <<heap, sopts, seen, strm>>

IsValid ==
  /\ res.op = "none"
  /\ \E toks \in Texts :
       res' = [op |-> "isValid", text |-> toks, out |-> isValid(toks)]
  /\ UNCHANGED <<heap, sopts, seen, strm>>

Next == Parse \/ ParseWithDetails \/ TryParse \/ IsValid

Spec == Init /\ [][Next]_vars

\* stringify and tryStringify, called again and again on the caller's graph.
InitStringify ==
  /\ heap \in Heaps
  /\ sopts \in StringifyOptions
  /\ seen = {}
  /\ res = NoCall
  /\ strm = Idle

\* What a call leaves in res: the operation, its argument, what it returned,
\* and the call made before it (without that call's own history).
Forget(call) == [x \in DOMAIN call \ {"prev"} |-> call[x]]
Returned(r) == [x \in DOMAIN r \ {"seen"} |-> r[x]]

Stringify ==
  \E root \in HeapVals :
    \E r \in {stringify(heap, root, sopts)} :
       /\ res' = [op |-> "stringify", root |-> root, out |-> Returned(r),
                  prev |-> Forget(res)]
       /\ seen' = r.seen
       /\ UNCHANGED <<heap, sopts, strm>>

TryStringify ==
  \E root \in HeapVals :
    \E r \in {tryStringify(heap, root, sopts)} :
       /\ res' = [op |-> "tryStringify", root |-> root, out |-> Returned(r),
                  prev |-> Forget(res)]
       /\ seen' = r.seen
       /\ UNCHANGED <<heap, sopts, strm>>

NextStringify == Stringify \/ TryStringify

SpecStringify == InitStringify /\ [][NextStringify]_vars

\* parseStream, on a string (one synchronous run) and on a ReadableStream
\* (a step at each await of reader.read()).
\* The texts fed to parseStream; 11 is a text whose proper prefix is a valid
\* document too.
StreamTexts ==
  {Encode(v) : v \in TreesUpTo(2)} \cup MalformedTexts \cup {<<>>, <<TNum(1), TNum(1)>>}

StreamOptions ==
  [chunkSize : {Undef, Num(0), Num(1), Num(3)}, onProgress : Callbacks, onError : Callbacks]

\* The ways a source cuts a text into at most n fragments.
RECURSIVE Splits(_, _)
Splits(toks, n) ==
  IF n <= 1 THEN {<<toks>>}
  ELSE {<<toks>>} \cup
       UNION {{<<SubSeq(toks, 1, k)>> \o rest :
                 rest \in Splits(SubSeq(toks, k + 1, Len(toks)), n - 1)} :
                k \in 1..(Len(toks) - 1)}

Chunkings(toks) == IF toks = <<>> THEN {<<>>} ELSE Splits(toks, MaxChunks)

InitStream ==
  /\ heap = EmptyHeap
  /\ sopts = [dates |-> "undefined", replacer |-> "none"]
  /\ seen = {}
  /\ res = NoCall
  /\ strm = Idle

StreamCall(input, toks, opts, out) ==
  [op |-> "parseStream", input |-> input, text |-> toks, opts |-> opts, out |-> out]

ParseStreamString ==
  /\ res.op = "none" /\ strm.pc = "idle"
  /\ \E toks \in StreamTexts, opts \in StreamOptions :
       res' = StreamCall("string", toks, opts, parseStreamString(toks, opts))
  /\ UNCHANGED <<heap, sopts, seen, strm>>

\* const reader = stream.getReader(), up to the first await of reader.read().
\* getReader throws on a stream that is locked already: the catch block runs
\* with no reader acquired.
StreamOpen ==
  /\ res.op = "none" /\ strm.pc = "idle"
  /\ \E toks \in StreamTexts, opts \in {o \in StreamOptions : o.chunkSize = Undef},
        lockedAlready \in BOOLEAN :
       \E chunks \in Chunkings(toks) :
         IF lockedAlready
         THEN /\ strm' = [pc |-> "settled", text |-> toks, opts |-> opts, chunks |-> chunks,
                          pending |-> chunks, buf |-> Buffer(<<>>, FALSE), progress |-> <<>>,
                          failure |-> Err("TypeError", "ReadableStream is locked"),
                          acquired |-> 0, released |-> 0]
              /\ res' = StreamCall("stream", toks, opts,
                          finish(opts, Buffer(<<>>, FALSE),
                                 Err("TypeError", "ReadableStream is locked"), <<>>))
         ELSE /\ strm' = [pc |-> "reading", text |-> toks, opts |-> opts, chunks |-> chunks,
                          pending |-> chunks, buf |-> Buffer(<<>>, FALSE), progress |-> <<>>,
                          failure |-> NoFailure, acquired |-> 1, released |-> 0]
              /\ res' = res
  /\ UNCHANGED <<heap, sopts, seen>>

\* reader.read() resolves with a fragment: text += decoder.decode(value), then
\* the opportunistic parse, and the next read is awaited.
StreamRead ==
  /\ strm.pc = "reading" /\ strm.pending # <<>>
  /\ LET buf == Buffer(strm.buf.toks \o Head(strm.pending), FALSE)
     IN strm' = [strm EXCEPT !.buf = buf, !.pending = Tail(strm.pending),
                             !.progress = reportProgress(strm.opts, buf, strm.progress)]
  /\ UNCHANGED <<heap, sopts, seen, res>>

\* reader.read() resolves with done: break, and releaseLock in the finally block.
StreamDone ==
  /\ strm.pc = "reading" /\ strm.pending = <<>>
  /\ strm' = [strm EXCEPT !.pc = "released", !.released = @ + 1]
  /\ UNCHANGED <<heap, sopts, seen, res>>

\* A failed read that leaves the loop without the finally block.
StreamFailLeaking ==
  /\ strm.pc = "reading"
  /\ strm' = [strm EXCEPT !.pc = "released", !.failure = Err("Error", "read failed")]
  /\ UNCHANGED <<heap, sopts, seen, res>>

\* reader.read() rejects: releaseLock in the finally block, the error goes on
\* to the outer catch.
StreamFail ==
  /\ strm.pc = "reading"
  /\ strm' = [strm EXCEPT !.pc = "released", !.released = @ + 1,
                          !.failure = Err("Error", "read failed")]
  /\ UNCHANGED <<heap, sopts, seen, res>>

\* After the finally block: the final JSON.parse(text) and the result, or the
\* catch block with onError.
StreamSettle ==
  /\ strm.pc = "released"
  /\ strm' = [strm EXCEPT !.pc = "settled"]
  /\ res' = StreamCall("stream", strm.text, strm.opts,
                       finish(strm.opts, strm.buf, strm.failure, strm.progress))
  /\ UNCHANGED <<heap, sopts, seen>>

NextStream ==
  ParseStreamString \/ StreamOpen \/ StreamRead \/ StreamDone \/ StreamFail \/ StreamSettle

SpecStream == InitStream /\ [][NextStream]_vars

\* ------------------------------------------- stringify on graphs with dates
\* The references and leaves all the composites of such a graph hold together.
MaxDatedEdges == 3

DatedVals == {DateV(5), Num(1)} \cup {Ref(i) : i \in 1..MaxObj}

RECURSIVE DatedHeapsUpTo(_, _)
DatedHeapsUpTo(n, e) ==
  IF n = 0 THEN {<<>>}
  ELSE UNION {{Append(h, [kind |-> KindOf(n), vals |-> s]) :
                 h \in DatedHeapsUpTo(n - 1, e - Len(s))} : s \in SeqsUpTo(DatedVals, e)}

DatedHeaps == DatedHeapsUpTo(MaxObj, MaxDatedEdges)

\* The values passed as the root, undefined among them, and the replacers:
\* none, one that throws at the key a, one that answers [typeof value, value]
\* there.
DatedRoots == DatedVals \cup {Undef}
DatedReplacers == {"none", "throw", "typeof"}

InitTimestamp ==
  /\ heap \in DatedHeaps
  /\ sopts \in [dates : {"timestamp", "iso"}, replacer : DatedReplacers]
  /\ seen = {}
  /\ res = NoCall
  /\ strm = Idle

StringifyDated ==
  /\ res.op = "none"
  /\ \E root \in DatedRoots :
    \E r \in {stringify(heap, root, sopts)} :
       /\ res' = [op |-> "stringify", root |-> root, out |-> Returned(r),
                  prev |-> Forget(res)]
       /\ seen' = r.seen
       /\ UNCHANGED <<heap, sopts, strm>>

TryStringifyDated ==
  /\ res.op = "none"
  /\ \E root \in DatedRoots :
    \E r \in {tryStringify(heap, root, sopts)} :
       /\ res' = [op |-> "tryStringify", root |-> root, out |-> Returned(r),
                  prev |-> Forget(res)]
       /\ seen' = r.seen
       /\ UNCHANGED <<heap, sopts, strm>>

NextTimestamp == StringifyDated \/ TryStringifyDated

SpecTimestamp == InitTimestamp /\ [][NextTimestamp]_vars

\* ------------------------------------- dates written and read back again
\* The temporal values: the instants of the model and the one of year 10000.
TemporalValues == {DateV(ms) : ms \in Instants} \cup {FarDate}

\* What stands next to the temporal value in the object written.
Companions == {<<>>, <<Num(1)>>, <<Str(NoInstant)>>, <<Ref(2)>>}

\* {a: D}, {a: D, b: 1}, {a: D, b: '2023-13-45T00:00:00Z'}, {a: D, b: [D]}
DateHeaps ==
  {<<[kind |-> "obj", vals |-> <<D>> \o c],
     [kind |-> "arr", vals |-> IF c = <<Ref(2)>> THEN <<D>> ELSE <<>>]>> :
     D \in TemporalValues, c \in Companions}

\* The options of the parse that reads the text back.
DateParseOptions ==
  [maxSize : {Undef}, maxDepth : {Undef}, safeKeys : {FALSE}, schema : {NoSchema},
   default : {Undef}, reviver : {"none", "wrap", "throw"},
   dates : {"undefined", "true", "iso"}]

InitDates ==
  /\ heap \in DateHeaps
  /\ sopts = [dates |-> "iso", replacer |-> "none"]
  /\ seen = {}
  /\ res = NoCall
  /\ strm = Idle

\* stringify(value, {dates: 'iso'})
StringifyIso ==
  /\ res.op = "none"
  /\ \E r \in {stringify(heap, Ref(1), sopts)} :
       /\ res' = [op |-> "stringify", root |-> Ref(1), out |-> Returned(r)]
       /\ seen' = r.seen
  /\ UNCHANGED <<heap, sopts, strm>>

\* parse(text, options) on the text stringify returned
ParseBack ==
  /\ res.op = "stringify" /\ res.out.kind = "text"
  /\ \E opts \in DateParseOptions :
       res' = [op |-> "parse", text |-> res.out.text, opts |-> opts,
               out |-> parse(res.out.text, opts)]
  /\ UNCHANGED <<heap, sopts, seen, strm>>

NextDates == StringifyIso \/ ParseBack

SpecDates == InitDates /\ [][NextDates]_vars

\* ---------------------------------------------- validate, called directly
\* The longest array among the values handed to validate.
MaxItems == 2

ValidateLeaves == {Undef, Null, Num(1), Str("s"), Bool(TRUE)}
InnerObjects == {Obj(<<>>)} \cup {Obj(<<Field("b", v)>>) : v \in ValidateLeaves}
ElementVals ==
  {Num(1), Str("s"), Null, Obj(<<Field("b", Str("s"))>>), Obj(<<Field("b", Num(1))>>),
   Arr(<<Num(1)>>), Arr(<<Str("s")>>)}
FieldVals ==
  ValidateLeaves \cup InnerObjects \cup {Arr(items) : items \in SeqsUpTo(ElementVals, MaxItems)}

\* The values: what is not a plain object, and the objects with a field a, a
\* field b, both or neither (a field holding undefined included).
ValidateValues ==
  {Undef, Null, Num(1), Str("s"), Bool(TRUE), Arr(<<>>), Arr(<<Num(1)>>)}
  \cup {Obj(fa \o fb) :
          fa \in {<<>>} \cup {<<Field("a", v)>> : v \in FieldVals},
          fb \in {<<>>} \cup {<<Field("b", v)>> : v \in {Null, Num(1), Str("s")}}}

\* The tags of the schema type and the two marked optional.
Tags == {"string", "number", "boolean", "object", "array", "?string", "?number"}

SchemaAB == Nested(<<Field("a", TypeTag("number")), Field("b", TypeTag("string"))>>)
SchemaBA == Nested(<<Field("b", TypeTag("string")), Field("a", TypeTag("number"))>>)
SchemaNested == Nested(<<Field("a", Nested(<<Field("b", TypeTag("string"))>>))>>)
SchemaStrings == Nested(<<Field("a", ArraySchema(TypeTag("string")))>>)
SchemaObjects ==
  Nested(<<Field("a", ArraySchema(Nested(<<Field("b", TypeTag("string"))>>)))>>)
SchemaMatrix == Nested(<<Field("a", ArraySchema(ArraySchema(TypeTag("number"))))>>)

ValidateSchemas ==
  {Nested(<<Field("a", TypeTag(tag))>>) : tag \in Tags}
  \cup {SchemaAB, SchemaBA, SchemaNested, SchemaStrings, SchemaObjects, SchemaMatrix}

InitValidate ==
  /\ heap = EmptyHeap
  /\ sopts = [dates |-> "undefined", replacer |-> "none"]
  /\ seen = {}
  /\ res = NoCall
  /\ strm = Idle

Validate ==
  /\ res.op = "none"
  /\ \E value \in ValidateValues, schema \in ValidateSchemas :
       res' = [op |-> "validate", value |-> value, schema |-> schema,
               out |-> validate(value, schema)]
  /\ UNCHANGED <<heap, sopts, seen, strm>>

NextValidate == Validate

SpecValidate == InitValidate /\ [][NextValidate]_vars

\* ------------------------------------------------- sanitizeKeys on its own
\* (key, value) => typeof value === 'string' ? Number(value) : value applied
\* to a decoded tree: the strings of the model are no numerals and become NaN.
RECURSIVE NumberOf(_)
NumberOf(v) ==
  CASE v.t = "str" -> NaN
    [] v.t = "arr" -> Arr([i \in 1..Len(v.items) |-> NumberOf(v.items[i])])
    [] v.t = "obj" ->
         Obj([i \in 1..Len(v.fields) |-> Field(v.fields[i].k, NumberOf(v.fields[i].v))])
    [] OTHER -> v

\* The decoded trees handed to sanitizeKeys: what JSON.parse builds, with and
\* without that reviver.
DecodedTrees ==
  TreesUpTo(MaxNodes) \cup {NumberOf(v) : v \in TreesUpTo(MaxNodes)}

InitSanitize ==
  /\ heap = EmptyHeap
  /\ sopts = [dates |-> "undefined", replacer |-> "none"]
  /\ seen = {}
  /\ strm = Idle
  /\ \E parsed \in DecodedTrees : res = [op |-> "decoded", parsed |-> parsed]

\* options?.safeKeys ? sanitizeKeys(parsed, true) : parsed
SanitizeKeys ==
  /\ res.op = "decoded"
  /\ \E safeKeys \in BOOLEAN :
       res' = [op |-> "sanitizeKeys", parsed |-> res.parsed, safeKeys |-> safeKeys,
               out |-> sanitizeKeys(res.parsed, safeKeys)]
  /\ UNCHANGED <<heap, sopts, seen, strm>>

NextSanitize == SanitizeKeys

SpecSanitize == InitSanitize /\ [][NextSanitize]_vars

\* -------------------------------------------------------- format, minify
\* parse(value) and stringify(value) called with no options.
NoParseOptions ==
  [maxSize |-> Undef, maxDepth |-> Undef, safeKeys |-> FALSE, schema |-> NoSchema,
   default |-> Undef, reviver |-> "none", dates |-> "undefined"]
NoStringifyOptions == [dates |-> "undefined", replacer |-> "none"]

\* White space in a text: a line break followed by n spaces, and one space.
Newline(n) == [c |-> "nl", n |-> n]
Space == Tok(" ")

\* The widest indentation JSON.stringify uses.
MaxGap == 10

\* The gap of JSON.stringify(value, replacer, space) for a number: space
\* clamped to MaxGap, none below 1.
gapOf(space) == IF space < 1 THEN 0 ELSE IF space > MaxGap THEN MaxGap ELSE space

\* The text JSON.stringify writes with a gap: every member of a non-empty
\* container on a line of its own, indented by gap per level, the closing
\* bracket back on the level of the opening one, a space after each colon.
RECURSIVE applyGap(_, _, _, _)
applyGap(toks, gap, i, depth) ==
  IF i > Len(toks) THEN <<>>
  ELSE LET tok == toks[i]
           opens == tok.c \in {"[", "{"}
           closes == tok.c \in {"]", "}"}
           empty == opens /\ i < Len(toks) /\ toks[i + 1].c \in {"]", "}"}
       IN IF empty THEN <<tok, toks[i + 1]>> \o applyGap(toks, gap, i + 2, depth)
          ELSE IF opens
          THEN <<tok, Newline((depth + 1) * gap)>> \o applyGap(toks, gap, i + 1, depth + 1)
          ELSE IF closes
          THEN <<Newline((depth - 1) * gap), tok>> \o applyGap(toks, gap, i + 1, depth - 1)
          ELSE IF tok.c = ","
          THEN <<tok, Newline(depth * gap)>> \o applyGap(toks, gap, i + 1, depth)
          ELSE IF tok.c = ":" THEN <<tok, Space>> \o applyGap(toks, gap, i + 1, depth)
          ELSE <<tok>> \o applyGap(toks, gap, i + 1, depth)

\* stringify(value, { space }): stringify, its text written with the gap.
stringifyWithSpace(value, space) ==
  LET r == stringify(EmptyHeap, value, NoStringifyOptions)
  IN IF r.kind = "text" /\ gapOf(space) > 0
     THEN [kind |-> "text", text |-> applyGap(r.text, gapOf(space), 1, 0)]
     ELSE [kind |-> r.kind, text |-> IF r.kind = "text" THEN r.text ELSE <<>>]

\* const space = typeof options === 'number' ? options : options?.space ?? 2
spaceOf(options) == IF options.t = "undef" THEN 2 ELSE options.n

\* format(value, options) and minify(value) with a string: parse it, null if
\* parse returned null, else stringify what it returned.
formatString(toks, options) ==
  LET parsed == parse(toks, NoParseOptions).value
  IN IF parsed = Null THEN [kind |-> "null", text |-> <<>>]
     ELSE stringifyWithSpace(parsed, spaceOf(options))

minifyString(toks) ==
  LET parsed == parse(toks, NoParseOptions).value
  IN IF parsed = Null THEN [kind |-> "null", text |-> <<>>]
     ELSE stringifyWithSpace(parsed, 0)

\* The texts and the other values passed to format and minify, and the
\* widths: none given, and numbers up to one beyond MaxGap.
FormatTexts == Texts \cup {<<Tok("null")>>, <<Tok("["), Tok("null"), Tok("]")>>}
FormatValues == {v \in TreesUpTo(2) : v.t # "str"} \cup {Null, Undef}
FormatWidths == {Undef, Num(0), Num(1), Num(4), Num(MaxGap + 1)}

InitFormat ==
  /\ heap = EmptyHeap
  /\ sopts = NoStringifyOptions
  /\ seen = {}
  /\ res = NoCall
  /\ strm = Idle

Format ==
  /\ res.op = "none"
  /\ \E options \in FormatWidths :
       \/ \E toks \in FormatTexts :
            res' = [op |-> "format", input |-> "string", text |-> toks,
                    options |-> options, out |-> formatString(toks, options)]
       \/ \E value \in FormatValues :
            res' = [op |-> "format", input |-> "value", value |-> value,
                    options |-> options,
                    out |-> stringifyWithSpace(value, spaceOf(options))]
  /\ UNCHANGED <<heap, sopts, seen, strm>>

Minify ==
  /\ res.op = "none"
  /\ \/ \E toks \in FormatTexts :
          res' = [op |-> "minify", input |-> "string", text |-> toks,
                  out |-> minifyString(toks)]
     \/ \E value \in FormatValues :
          res' = [op |-> "minify", input |-> "value", value |-> value,
                  out |-> stringifyWithSpace(value, 0)]
  /\ UNCHANGED <<heap, sopts, seen, strm>>

NextFormat == Format \/ Minify

SpecFormat == InitFormat /\ [][NextFormat]_vars

\* ================================================================= claims
\* What the claims speak of, stated apart from the code's own functions.

\* The nesting depth of a decoded value: a leaf or an empty container 0.
RECURSIVE DepthOf(_)
DepthOf(v) ==
  IF v.t \notin {"arr", "obj"} \/ EntriesOf(<<>>, v) = <<>> THEN 0
  ELSE LET e == EntriesOf(<<>>, v)
           ds == {DepthOf(e[i].v) : i \in 1..Len(e)}
       IN 1 + CHOOSE d \in ds : \A x \in ds : x <= d

\* Some object of the tree, at any level, has a dangerous key.
RECURSIVE HasDangerousKey(_)
HasDangerousKey(v) ==
  /\ v.t \in {"arr", "obj"}
  /\ \/ v.t = "obj" /\ \E i \in 1..Len(v.fields) : v.fields[i].k \in DangerousKeys
     \/ \E i \in 1..Len(EntriesOf(<<>>, v)) : HasDangerousKey(EntriesOf(<<>>, v)[i].v)

\* The tree without the dangerous keys, everything else in place.
RECURSIVE Stripped(_)
Stripped(v) ==
  CASE v.t = "arr" -> Arr([i \in 1..Len(v.items) |-> Stripped(v.items[i])])
    [] v.t = "obj" ->
         LET kept == SelectSeq(v.fields, LAMBDA f : f.k \notin DangerousKeys)
         IN Obj([i \in 1..Len(kept) |-> Field(kept[i].k, Stripped(kept[i].v))])
    [] OTHER -> v

\* The stage of a call that fails, from the text and the options alone;
\* "ok" when none does.
FailingStage(toks, opts) ==
  LET d == decode(toks, opts.reviver, opts.dates)
      clean == IF opts.safeKeys THEN Stripped(d.value) ELSE d.value
  IN IF opts.maxSize.t # "undef" /\ TextLength(toks) > opts.maxSize.n THEN "size"
     ELSE IF d.thrown THEN "decode"
     ELSE IF opts.maxDepth.t # "undef" /\ DepthOf(d.value) > opts.maxDepth.n THEN "depth"
     ELSE IF opts.schema.t # "undef" /\ ~validate(clean, opts.schema).valid THEN "schema"
     ELSE "ok"

IsParseCall == res.op \in {"parse", "parseWithDetails"}

\* C1: parse returns the configured non-nullish default, else null, whenever
\* an enabled stage (size gate, decode, depth gate, schema) fails, and the
\* decoded (with safeKeys: sanitized) value only when all of them succeeded;
\* a value the schema rejects is never returned.
C1_ParseDefaultOrValue ==
  res.op = "parse" =>
    LET opts == res.opts
        fallback == IF opts.default \in {Undef, Null} THEN Null ELSE opts.default
        d == decode(res.text, opts.reviver, opts.dates)
    IN /\ FailingStage(res.text, opts) # "ok" => res.out.value = fallback
       /\ FailingStage(res.text, opts) = "ok" =>
            res.out.value = IF opts.safeKeys THEN Stripped(d.value) ELSE d.value
       /\ (opts.schema.t # "undef" /\ res.out.value # fallback) =>
            validate(res.out.value, opts.schema).valid

\* A schema failure after a successful decode, answered with the default.
C1_Witness ==
  /\ res.op = "parse"
  /\ res.opts.schema = SchemaA /\ res.opts.default = Str("dflt")
  /\ res.text = Encode(Obj(<<Field("a", Str("s"))>>))
  /\ res.out.stage = "schema"
  /\ res.out.value = Str("dflt")

\* C2: no public operation lets an exception escape, whatever the hooks of
\* the caller do: a call of parseStream settles by resolving with a record
\* that encodes the failure, never by rejecting.
C2_ParseStreamResolves ==
  res.op = "parseStream" => res.out.kind = "resolved"

\* The stages the options enable, in the order of the contract.
EnabledStages(opts) ==
  (IF opts.maxSize.t # "undef" THEN <<"size">> ELSE <<>>)
    \o <<"decode">>
    \o (IF HasReviver(opts.reviver, opts.dates) THEN <<"reviver">> ELSE <<>>)
    \o (IF opts.maxDepth.t # "undef" THEN <<"depth">> ELSE <<>>)
    \o (IF opts.safeKeys THEN <<"sanitize">> ELSE <<>>)
    \o (IF opts.schema.t # "undef" THEN <<"validate">> ELSE <<>>)

IsPrefix(p, q) == Len(p) <= Len(q) /\ p = SubSeq(q, 1, Len(p))

\* C3: in parse and parseWithDetails the enabled stages run in the order size
\* gate, decode with reviver, depth gate, sanitization, validation; the stage
\* that fails is the last to run; a text over both maxSize and maxDepth is
\* reported by parseWithDetails as the size failure.
C3_StageOrder ==
  IsParseCall =>
    LET opts == res.opts
        stage == FailingStage(res.text, opts)
        trace == res.out.trace
        plain == JSONparse(res.text)
    IN /\ IsPrefix(trace, EnabledStages(opts))
       /\ res.out.stage = stage
       /\ stage = "ok" => trace = EnabledStages(opts)
       /\ stage = "size" => trace = <<"size">>
       /\ stage = "decode" => trace[Len(trace)] \in {"decode", "reviver"}
       /\ stage = "depth" => trace[Len(trace)] = "depth"
       /\ stage = "schema" => trace[Len(trace)] = "validate"
       /\ ( /\ res.op = "parseWithDetails"
            /\ opts.maxSize.t # "undef" /\ TextLength(res.text) > opts.maxSize.n
            /\ opts.maxDepth.t # "undef" /\ plain.ok /\ DepthOf(plain.value) > opts.maxDepth.n )
          => /\ ~res.out.success
             /\ res.out.stage = "size"
             /\ "depth" \notin {trace[i] : i \in 1..Len(trace)}

\* A text over both limits, with a reviver and a schema waiting behind them.
C3_Witness ==
  /\ res.op = "parseWithDetails"
  /\ res.text = Encode(Obj(<<Field("a", Arr(<<Num(1)>>))>>))
  /\ res.opts.maxSize = Num(8) /\ res.opts.maxDepth = Num(1)
  /\ res.opts.reviver = "throw" /\ res.opts.schema = SchemaA
  /\ res.out.stage = "size"
  /\ res.out.trace = <<"size">>

\* C4: with safeKeys the value parse and parseWithDetails return has no key
\* __proto__, constructor or prototype in any object at any level, objects in
\* arrays included, and every other key keeps its sanitized value; without
\* safeKeys the keys are kept.
C4_SafeKeys ==
  (IsParseCall /\ res.out.stage = "ok") =>
    LET d == decode(res.text, res.opts.reviver, res.opts.dates)
        value == IF res.op = "parse" THEN res.out.value ELSE res.out.data
    IN /\ res.opts.safeKeys => ~HasDangerousKey(value) /\ value = Stripped(d.value)
       /\ ~res.opts.safeKeys => value = d.value

\* A dangerous key in an object inside an array, removed.
C4_Witness ==
  /\ res.op = "parse" /\ res.opts.safeKeys /\ res.out.stage = "ok"
  /\ res.text = Encode(Arr(<<Obj(<<Field("__proto__", Num(1))>>)>>))
  /\ res.out.value = Arr(<<Obj(<<>>)>>)

\* -------------------------------------------------- the caller's graph
\* The composites a composite refers to, and those reachable from a set.
RefsOf(h, i) == {h[i].vals[k].id : k \in {k \in 1..Len(h[i].vals) : h[i].vals[k].t = "ref"}}

RECURSIVE Reach(_, _)
Reach(h, S) ==
  LET n == S \cup UNION {RefsOf(h, i) : i \in S}
  IN IF n = S THEN S ELSE Reach(h, n)

Roots(v) == IF v.t = "ref" THEN {v.id} ELSE {}
ReachOf(h, v) == Reach(h, Roots(v))

Cyclic(h, v) == \E i \in ReachOf(h, v) : i \in Reach(h, RefsOf(h, i))

HasDate(h, v) ==
  \/ v.t = "date"
  \/ \E i \in ReachOf(h, v) : \E k \in 1..Len(h[i].vals) : h[i].vals[k].t = "date"

\* The places of the reachable graph that hold a reference to composite j.
PlacesOf(h, v, j) ==
  UNION {{<<i, k>> : k \in {k \in 1..Len(h[i].vals) : h[i].vals[k] = Ref(j)}} :
           i \in ReachOf(h, v)}

\* No composite is reachable along two paths, and none along a cycle.
IsTreeShaped(h, v) ==
  /\ ~Cyclic(h, v)
  /\ \A j \in ReachOf(h, v) : Cardinality(PlacesOf(h, v, j)) <= 1

\* The only reference the graph of v holds is one from v to itself.
IsSelfLoop(h, v) ==
  /\ v.t = "ref"
  /\ ReachOf(h, v) = {v.id}
  /\ Cardinality(PlacesOf(h, v, v.id)) = 1

\* An acyclic graph as the JSON tree it denotes.
RECURSIVE ToTree(_, _)
ToTree(h, v) ==
  IF v.t # "ref" THEN v
  ELSE IF h[v.id].kind = "arr"
  THEN Arr([k \in 1..Len(h[v.id].vals) |-> ToTree(h, h[v.id].vals[k])])
  ELSE Obj([k \in 1..Len(h[v.id].vals) |-> Field(KeyNames[k], ToTree(h, h[v.id].vals[k]))])

IsStringifyCall == res.op \in {"stringify", "tryStringify"}

\* The text a call produced, decoded again.
Decoded(text) == JSONparse(text).value

CountCircular(text) ==
  Cardinality({i \in 1..Len(text) : text[i] = TStr("[Circular]")})

\* Walking the graph and the decoded output side by side with the objects
\* being serialized (the ancestors): a reference back to one of them stands
\* in the output as "[Circular]"; any other composite stands as "[Circular]"
\* or as a container with the same keys, walked in turn.
RECURSIVE BackRefsCircular(_, _, _, _)
BackRefsCircular(h, v, out, ancestors) ==
  IF v.t # "ref" THEN out.t \notin {"arr", "obj"}
  ELSE IF v.id \in ancestors THEN out = Circular
  ELSE IF out = Circular THEN TRUE
  ELSE LET e == Entries(h, v.id)
           o == EntriesOf(<<>>, out)
       IN /\ out.t = h[v.id].kind
          /\ Len(o) = Len(e)
          /\ \A k \in 1..Len(e) :
               /\ o[k].k = e[k].k
               /\ BackRefsCircular(h, e[k].v, o[k].v, ancestors \cup {v.id})

\* C5: on a graph with reference cycles (through objects or arrays, or a
\* self-reference) stringify and tryStringify return a text, with
\* "[Circular]" wherever a position refers back to an object being
\* serialized; for one self-reference the text has "[Circular]" exactly once.
C5_CyclesTerminate ==
  (IsStringifyCall /\ sopts.replacer = "none" /\ Cyclic(heap, res.root)) =>
    /\ res.out.kind = "text"
    /\ JSONparse(res.out.text).ok
    /\ BackRefsCircular(heap, res.root, Decoded(res.out.text), {})
    /\ IsSelfLoop(heap, res.root) => CountCircular(res.out.text) = 1

\* a.self = a, next to a plain field.
C5_Witness ==
  /\ res.op = "stringify" /\ sopts.replacer = "none" /\ sopts.dates = "undefined"
  /\ res.root = Ref(1)
  /\ heap[1].vals = <<Num(1), Ref(1)>>
  /\ res.out.kind = "text"
  /\ res.out.text = Encode(Obj(<<Field("a", Num(1)), Field("b", Circular)>>))

\* Walking the graph in traversal order with the composites met so far: a
\* composite met for the first time stands in the output in full, one met
\* before stands as "[Circular]".
RECURSIVE FirstEncounter(_, _, _, _)
RECURSIVE FirstEncounterAll(_, _, _, _, _)
FirstEncounter(h, v, out, visited) ==
  IF v.t # "ref"
  THEN [ok |-> out.t \notin {"arr", "obj"} /\ out # Circular, visited |-> visited]
  ELSE IF v.id \in visited THEN [ok |-> out = Circular, visited |-> visited]
  ELSE IF out.t # h[v.id].kind THEN [ok |-> FALSE, visited |-> visited]
  ELSE FirstEncounterAll(h, Entries(h, v.id), EntriesOf(<<>>, out), 1,
                         visited \cup {v.id})

FirstEncounterAll(h, e, o, k, visited) ==
  IF Len(o) # Len(e) THEN [ok |-> FALSE, visited |-> visited]
  ELSE IF k > Len(e) THEN [ok |-> TRUE, visited |-> visited]
  ELSE LET r == FirstEncounter(h, e[k].v, o[k].v, visited)
       IN IF ~r.ok \/ o[k].k # e[k].k THEN [ok |-> FALSE, visited |-> visited]
          ELSE FirstEncounterAll(h, e, o, k + 1, r.visited)

\* C6: within one call of stringify or tryStringify (without a custom
\* replacer), a composite is serialized in full at its first encounter in
\* traversal order and is "[Circular]" at every later one, a sibling that
\* shares it included.
C6_FirstEncounterOnly ==
  (IsStringifyCall /\ sopts.replacer = "none" /\ res.root.t = "ref") =>
    /\ res.out.kind = "text"
    /\ JSONparse(res.out.text).ok
    /\ FirstEncounter(heap, res.root, Decoded(res.out.text), {}).ok

\* Two fields of one object sharing an array that is no ancestor of either.
C6_Witness ==
  /\ res.op = "tryStringify" /\ sopts.replacer = "none" /\ sopts.dates = "undefined"
  /\ res.root = Ref(1)
  /\ heap[1].vals = <<Ref(2), Ref(2)>> /\ heap[2].vals = <<>>
  /\ res.out.kind = "text"
  /\ res.out.text = Encode(Obj(<<Field("a", Arr(<<>>)), Field("b", Circular)>>))

\* C7: the set of seen composites belongs to one call: a call made after
\* another returns what its own arguments determine, so a repeated call
\* returns the same, and the root of a later call is serialized in full
\* although an earlier call has met it.
C7_SeenSetLocal ==
  (IsStringifyCall /\ res.prev.op # "none") =>
    /\ (res.prev.op = res.op /\ res.prev.root = res.root) => res.out = res.prev.out
    /\ (res.prev.root = res.root /\ res.prev.out.kind = "text") => res.out = res.prev.out
    /\ (sopts.replacer = "none" /\ res.root.t = "ref") =>
         /\ res.out.kind = "text"
         /\ res.out.text[1] = Tok(IF heap[res.root.id].kind = "arr" THEN "[" ELSE "{")

\* The same cyclic object serialized twice in a row.
C7_Witness ==
  /\ res.op = "stringify" /\ res.prev.op = "stringify"
  /\ res.root = Ref(1) /\ res.prev.root = Ref(1)
  /\ heap[1].vals = <<Ref(1)>>
  /\ sopts.dates = "undefined"
  /\ 1 \in seen
  /\ res.out.kind = "text"
  /\ res.out.text = Encode(Obj(<<Field("a", Circular)>>))

\* parse(text) with no options.
RoundTrips(h, v, out) ==
  /\ out.kind = "text"
  /\ parse(out.text, NoParseOptions).value = ToTree(h, v)

FieldAToken(text) == IF Len(text) >= 4 /\ text[2] = TStr("a") THEN text[4] ELSE Tok("absent")

\* C9: the custom replacer runs first and what it returns is the node for
\* cycle detection, date handling and bigint conversion, in every date mode:
\* a bigint it returns becomes the marked string, a temporal value it returns
\* is converted as the active date mode says, and an object it removed is not
\* recorded as seen, so a later reference to it is serialized in full.
C9_ReplacerRunsFirst ==
  ( /\ IsStringifyCall /\ res.root.t = "ref"
    /\ heap[res.root.id].kind = "obj" /\ heap[res.root.id].vals # <<>> )
  => LET vals == heap[res.root.id].vals
     IN /\ sopts.replacer = "toBigint" =>
             res.out.kind = "text" /\ FieldAToken(res.out.text) = TStr("7n")
        /\ (sopts.replacer = "toDate" /\ datesEnabled(sopts.dates)) =>
             /\ res.out.kind = "text"
             /\ FieldAToken(res.out.text) =
                  IF mode(sopts.dates) = "timestamp" THEN TNum(7)
                  ELSE TStr(toISOString(7))
        /\ ( /\ sopts.replacer = "remove" /\ Len(vals) = 2
             /\ vals[1].t = "ref" /\ vals[2] = vals[1] /\ vals[1] # res.root )
           => /\ res.out.kind = "text"
              /\ res.out.text[2] = TStr("b")
              /\ res.out.text[4] # TStr("[Circular]")

\* C10: for a value without temporal values and any custom replacer, the
\* pre-pass path (dates: 'timestamp') returns what the replacer-only path
\* (dates absent) returns: the same text, "[Circular]" at the same places,
\* the same redactions and removals.
C10_PathsAgree ==
  (IsStringifyCall /\ sopts.dates = "timestamp" /\ ~HasDate(heap, res.root)) =>
    LET other == [sopts EXCEPT !.dates = "undefined"]
    IN res.out = Returned(IF res.op = "stringify" THEN stringify(heap, res.root, other)
                          ELSE tryStringify(heap, res.root, other))

\* C11: parseWithDetails attaches a position and a context excerpt only to
\* decode-stage failures: a failure of the size gate, of the depth gate or of
\* the schema validation gives success = false, an error string, and position
\* and context both undefined; a position, where there is one, comes with a
\* context and with a decode failure.
C11_PositionOnlyForDecode ==
  res.op = "parseWithDetails" =>
    LET stage == FailingStage(res.text, res.opts)
    IN /\ stage \in {"size", "depth", "schema"} =>
            /\ ~res.out.success
            /\ res.out.error \in STRING
            /\ res.out.position = Undef
            /\ res.out.context = Undef
       /\ (~res.out.success /\ res.out.position # Undef) =>
            /\ stage = "decode"
            /\ res.out.context # Undef
       /\ (~res.out.success /\ res.out.position = Undef) => res.out.context = Undef

\* A depth failure on a text that decodes, reported without position.
C11_Witness ==
  /\ res.op = "parseWithDetails"
  /\ res.text = Encode(Arr(<<Arr(<<Num(1)>>)>>))
  /\ res.opts.maxDepth = Num(1) /\ res.opts.maxSize = Undef
  /\ ~res.out.success /\ res.out.stage = "depth"
  /\ res.out.position = Undef /\ res.out.context = Undef

\* The levels at which the tree has a node: the root at 0, the value of an
\* object field or an array element one below its container.
RECURSIVE LevelsOf(_, _)
LevelsOf(v, level) ==
  {level} \cup
    (IF v.t = "arr" THEN UNION {LevelsOf(v.items[i], level + 1) : i \in 1..Len(v.items)}
     ELSE IF v.t = "obj"
     THEN UNION {LevelsOf(v.fields[i].v, level + 1) : i \in 1..Len(v.fields)}
     ELSE {})

\* C13: with maxDepth = d the depth gate of parse and parseWithDetails fails
\* exactly when the decoded tree has a node at a level greater than d (root 0,
\* one more per descent into a field or an element); otherwise it passes and
\* hands the decoded tree on unchanged.
C13_DepthGateExact ==
  (IsParseCall /\ res.opts.maxDepth # Undef /\ res.out.stage \notin {"size", "decode"}) =>
    LET d == decode(res.text, res.opts.reviver, res.opts.dates)
        tooDeep == \E l \in LevelsOf(d.value, 0) : l > res.opts.maxDepth.n
        value == IF res.op = "parse" THEN res.out.value ELSE res.out.data
    IN /\ res.out.stage = "depth" <=> tooDeep
       /\ (res.out.stage = "ok" /\ ~res.opts.safeKeys) => value = d.value

\* A number two levels down, over a maximum of one: the gate fails.
C13_Witness ==
  /\ res.op = "parse"
  /\ res.text = Encode(Obj(<<Field("a", Obj(<<Field("a", Num(1))>>))>>))
  /\ res.opts.maxDepth = Num(1) /\ res.opts.maxSize = Undef
  /\ res.out.stage = "depth"
  /\ res.out.value = defaultOrNull(res.opts)

\* C12: with safeKeys and a schema, parse and parseWithDetails validate the
\* sanitized tree and not the decoded one, so a field held only under a
\* stripped key is missing for the validator; when the validation fails, the
\* error string of parseWithDetails is the validator's message.
C12_ValidatesSanitized ==
  (IsParseCall /\ res.opts.schema # NoSchema /\ res.out.stage \in {"ok", "schema"}) =>
    LET d == decode(res.text, res.opts.reviver, res.opts.dates)
        handed == IF res.opts.safeKeys THEN Stripped(d.value) ELSE d.value
        v == validate(handed, res.opts.schema)
    IN /\ res.out.stage = "schema" <=> ~v.valid
       /\ (res.op = "parseWithDetails" /\ ~v.valid) =>
            ~res.out.success /\ res.out.error = v.message
       /\ (res.opts.safeKeys /\ res.opts.schema = SchemaP /\ d.value.t = "obj") =>
            /\ res.out.stage = "schema"
            /\ res.op = "parseWithDetails" =>
                 res.out.error = "Field \"prototype\": expected number, got undefined"

\* A number under the key prototype, which the schema asks for: stripped
\* before the validator looks, so the call fails on a text whose decoded tree
\* satisfies the schema.
C12_Witness ==
  /\ res.op = "parseWithDetails"
  /\ res.text = Encode(Obj(<<Field("prototype", Num(1))>>))
  /\ res.opts.safeKeys /\ res.opts.schema = SchemaP
  /\ validate(JSONparse(res.text).value, SchemaP).valid
  /\ res.out.stage = "schema" /\ ~res.out.success
  /\ res.out.error = "Field \"prototype\": expected number, got undefined"

IsValidateCall == res.op = "validate"

\* The verdict on one schema field alone.
FieldVerdict(value, schema, i) == validate(value, Nested(<<schema.fields[i]>>))

\* C14: validate checks the fields in the schema's own key order and stops at
\* the first that fails: the error reported is that of the lowest failing
\* position, whatever the fields after it hold, and the value is valid only
\* when no field fails.
C14_FirstFailureInSchemaOrder ==
  (IsValidateCall /\ ~NotPlainObject(res.value)) =>
    LET n == Len(res.schema.fields)
        failing == {i \in 1..n : ~FieldVerdict(res.value, res.schema, i).valid}
    IN /\ res.out.valid <=> failing = {}
       /\ failing # {} =>
            LET first == CHOOSE i \in failing : \A j \in failing : i <= j
            IN res.out = FieldVerdict(res.value, res.schema, first)

\* Both fields fail; the schema lists b first, and the error is b's.
C14_Witness ==
  /\ IsValidateCall
  /\ res.schema = SchemaBA
  /\ res.value = Obj(<<Field("a", Str("s")), Field("b", Num(1))>>)
  /\ ~FieldVerdict(res.value, res.schema, 1).valid
  /\ ~FieldVerdict(res.value, res.schema, 2).valid
  /\ res.out.at = <<"b">>
  /\ res.out.message = "Field \"b\": expected string, got number"

\* ---- what the specification of the validator says, for comparison
\* The runtime type name of a value: null for null, array for a sequence.
RuntimeTypeName(v) ==
  CASE v.t = "null" -> "null"
    [] v.t = "arr" -> "array"
    [] v.t = "str" -> "string"
    [] v.t = "num" -> "number"
    [] v.t = "bool" -> "boolean"
    [] v.t = "undef" -> "undefined"
    [] OTHER -> "object"

IsOptional(tag) == tag \in {"?string", "?number"}
Unmarked(tag) == IF tag = "?string" THEN "string" ELSE IF tag = "?number" THEN "number" ELSE tag

Passed == [valid |-> TRUE, path |-> "", expected |-> "", actual |-> ""]
Failure(path, expected, actual) ==
  [valid |-> FALSE, path |-> path, expected |-> expected, actual |-> actual]

\* The per-field resolution of the specification: optional tag, tag, array
\* of T, nested schema; the first failure in schema and index order, its path
\* extended by .key and [index].
RECURSIVE Resolve(_, _, _)
RECURSIVE ResolveItems(_, _, _, _)
RECURSIVE ResolveFields(_, _, _, _)
Resolve(v, sv, path) ==
  CASE sv.t = "type" ->
         IF IsOptional(sv.v) /\ v = Undef THEN Passed
         ELSE IF RuntimeTypeName(v) = Unmarked(sv.v) THEN Passed
         ELSE Failure(path, Unmarked(sv.v), RuntimeTypeName(v))
    [] sv.t = "array" ->
         IF v.t # "arr" THEN Failure(path, "array", RuntimeTypeName(v))
         ELSE ResolveItems(v.items, sv.item, path, 1)
    [] OTHER ->
         IF v.t # "obj" THEN Failure(path, "object", RuntimeTypeName(v))
         ELSE ResolveFields(v, sv.fields, path \o ".", 1)

ResolveItems(items, sv, path, i) ==
  IF i > Len(items) THEN Passed
  ELSE With(Resolve(items[i], sv, path \o "[" \o ToString(i - 1) \o "]"), LAMBDA r :
         IF ~r.valid THEN r ELSE ResolveItems(items, sv, path, i + 1))

ResolveFields(obj, fields, prefix, i) ==
  IF i > Len(fields) THEN Passed
  ELSE With(Resolve(Lookup(obj, fields[i].k), fields[i].v, prefix \o fields[i].k),
            LAMBDA r :
         IF ~r.valid THEN r ELSE ResolveFields(obj, fields, prefix, i + 1))

\* The validation result the specification describes.
Specified(value, schema) ==
  IF value.t # "obj" THEN Failure("root", "object", RuntimeTypeName(value))
  ELSE ResolveFields(value, schema.fields, "", 1)

\* The keys of the message's `Field "key": ` prefixes read as a path.
RECURSIVE Dotted(_)
Dotted(at) ==
  IF at = <<>> THEN "root"
  ELSE IF Len(at) = 1 THEN at[1]
  ELSE at[1] \o "." \o Dotted(Tail(at))

\* The one field of the schemas {a: ...}, and what the value holds under it.
SchemaOfA == res.schema.fields[1].v
FieldA == Lookup(res.value, "a")
OnFieldA == IsValidateCall /\ res.value.t = "obj" /\ Len(res.schema.fields) = 1

\* C15: for an optional schema value ('?' + tag) the field is valid when it is
\* absent or undefined, invalid when it is null (actual reported as null), and
\* otherwise valid exactly when its runtime type is the unmarked tag.
C15_OptionalFields ==
  (OnFieldA /\ SchemaOfA.t = "type" /\ IsOptional(SchemaOfA.v)) =>
    /\ FieldA = Undef => res.out.valid
    /\ FieldA = Null => ~res.out.valid /\ res.out.actual = "null"
    /\ FieldA \notin {Undef, Null} =>
         (res.out.valid <=> RuntimeTypeName(FieldA) = Unmarked(SchemaOfA.v))

\* C16: for an array schema [T] a field that is not a sequence fails with
\* expected array; a sequence is valid exactly when every element matches T,
\* the error being that of the lowest failing index with path field[index];
\* an empty sequence is valid for every T.
C16_ArraySchemas ==
  (OnFieldA /\ SchemaOfA.t = "array") =>
    LET want == Specified(res.value, res.schema)
    IN /\ FieldA.t # "arr" => ~res.out.valid /\ res.out.expected = "array"
       /\ FieldA.t = "arr" => (res.out.valid <=> want.valid)
       /\ FieldA = Arr(<<>>) => res.out.valid
       /\ (FieldA.t = "arr" /\ ~res.out.valid) =>
            /\ Dotted(res.out.at) = want.path
            /\ res.out.expected = want.expected

\* C17: the path of a failure is built by prefixing at each recursive return:
\* k.m through object field k, k[i] through element i of array field k, k[i].m
\* and k[i][j] below that.
C17_PathsArePrefixed ==
  (OnFieldA /\ SchemaOfA.t \in {"array", "schema"}) =>
    LET want == Specified(res.value, res.schema)
    IN ~want.valid => ~res.out.valid /\ Dotted(res.out.at) = want.path

\* C18: null satisfies no tag and a sequence does not satisfy object: the tag
\* object is satisfied exactly by non-null, non-array structured values, empty
\* ones included; the actual type reported for a null field is null and for a
\* missing one undefined.
C18_NullIsNotAnObject ==
  (OnFieldA /\ SchemaOfA.t = "type" /\ ~IsOptional(SchemaOfA.v)) =>
    /\ FieldA = Null => ~res.out.valid /\ res.out.actual = "null"
    /\ FieldA = Undef => ~res.out.valid /\ res.out.actual = "undefined"
    /\ SchemaOfA.v = "object" => (res.out.valid <=> FieldA.t = "obj")

\* C19: a top-level value that is not a non-null, non-array object fails at
\* once with path root, expected object and as actual the runtime type name of
\* the value.
C19_RootMustBeObject ==
  (IsValidateCall /\ res.value.t # "obj") =>
    /\ ~res.out.valid
    /\ Dotted(res.out.at) = "root"
    /\ res.out.expected = "object"
    /\ res.out.actual = RuntimeTypeName(res.value)

IsTimestampCall ==
  /\ IsStringifyCall /\ res.root # Undef
  /\ sopts.dates = "timestamp" /\ sopts.replacer = "none"

\* The graph and the decoded output walked side by side, every position of
\* the graph counted: a temporal value stands in the output as its epoch
\* milliseconds; a composite stands as a container with the same keys, or as
\* something else only if no temporal value lies below it.
RECURSIVE StampedEverywhere(_, _, _)
StampedEverywhere(h, v, out) ==
  IF v.t = "date" THEN out = Num(v.ms)
  ELSE IF v.t # "ref" THEN out = v
  ELSE IF out.t = h[v.id].kind /\ Len(EntriesOf(<<>>, out)) = Len(Entries(h, v.id))
  THEN \A k \in 1..Len(Entries(h, v.id)) :
         /\ EntriesOf(<<>>, out)[k].k = Entries(h, v.id)[k].k
         /\ StampedEverywhere(h, Entries(h, v.id)[k].v, EntriesOf(<<>>, out)[k].v)
  ELSE ~HasDate(h, v)

\* The same walk, stopping where the output has "[Circular]" in the place of
\* a composite.
RECURSIVE StampedWhereKept(_, _, _)
StampedWhereKept(h, v, out) ==
  IF v.t = "date" THEN out = Num(v.ms)
  ELSE IF v.t # "ref" THEN out = v
  ELSE IF out = Circular THEN TRUE
  ELSE /\ out.t = h[v.id].kind
       /\ Len(EntriesOf(<<>>, out)) = Len(Entries(h, v.id))
       /\ \A k \in 1..Len(Entries(h, v.id)) :
            /\ EntriesOf(<<>>, out)[k].k = Entries(h, v.id)[k].k
            /\ StampedWhereKept(h, Entries(h, v.id)[k].v, EntriesOf(<<>>, out)[k].v)

IsReadBack == res.op = "parse" /\ res.opts.dates = "true" /\ res.opts.reviver = "none"

\* The temporal value written under the key a, and what parse returned there.
WrittenDate == heap[1].vals[1]
ReadBack == Lookup(res.out.value, "a")

RECURSIVE WrappedOnce(_)
WrappedOnce(v) ==
  Arr(<<CASE v.t = "str" /\ (\E ms \in Instants : v.s = toISOString(ms)) ->
               DateV(CHOOSE ms \in Instants : v.s = toISOString(ms))
          [] v.t = "arr" -> Arr([i \in 1..Len(v.items) |-> WrappedOnce(v.items[i])])
          [] v.t = "obj" ->
               Obj([i \in 1..Len(v.fields) |->
                      Field(v.fields[i].k, WrappedOnce(v.fields[i].v))])
          [] OTHER -> v>>)

\* C22: with an active date mode and a custom reviver, the custom reviver is
\* called exactly once per node, after the date check: with the temporal value
\* when the node was an ISO-shaped string denoting a valid instant, with the
\* decoded value otherwise; what it returns is the final value of the node.
C22_CustomReviverAfterDates ==
  (res.op = "parse" /\ datesEnabled(res.opts.dates)) =>
    /\ res.opts.reviver = "wrap" =>
         /\ res.out.stage = "ok"
         /\ res.out.value = WrappedOnce(JSONparse(res.text).value)
    /\ res.opts.reviver = "throw" => res.out.stage = "decode" /\ res.out.value = Null

\* {a: D, b: '2023-13-45T00:00:00Z'} read back through the wrapping reviver:
\* the date arrives converted, the string that names no instant as it is.
C22_Witness ==
  /\ res.op = "parse" /\ res.opts.dates = "iso" /\ res.opts.reviver = "wrap"
  /\ heap[1].vals = <<DateV(7), Str(NoInstant)>>
  /\ res.out.value =
       Arr(<<Obj(<<Field("a", Arr(<<DateV(7)>>)), Field("b", Arr(<<Str(NoInstant)>>))>>)>>)

\* C23: for every value and options stringify returns a text or null, and
\* tryStringify (text, null) or (null, error); an exception raised during the
\* traversal gives null from stringify and (null, the error raised) from
\* tryStringify, never a partial text.
C23_StringifyTextOrNull ==
  IsStringifyCall =>
    LET body == stringifyBody(heap, res.root, sopts)
    IN /\ res.op = "stringify" => res.out.kind \in {"text", "null"}
       /\ res.op = "tryStringify" => res.out.kind \in {"text", "error"}
       /\ body.thrown =>
            /\ res.op = "stringify" => res.out.kind = "null"
            /\ res.op = "tryStringify" =>
                 res.out.kind = "error" /\ res.out.error = body.err
       /\ res.out.kind = "text" => JSONparse(res.out.text).ok


\* ---- C24 ----
IsStreamCall == res.op = "parseStream"

\* The error the call ends with, if any: a failed read or a locked stream,
\* else the final JSON.parse of the whole text.
StreamError ==
  IF res.input = "stream" /\ strm.failure # NoFailure THEN strm.failure
  ELSE IF JSONparse(res.text).ok THEN NoFailure
  ELSE SyntaxError(res.text, JSONparse(res.text).pos)

TwoShapes ==
  /\ res.out.kind = "resolved"
  /\ IF StreamError = NoFailure
     THEN /\ res.out.data = JSONparse(res.text).value
          /\ res.out.error = Null
          /\ res.out.complete
          /\ res.out.onError = <<>>
     ELSE /\ res.out.data = Null
          /\ res.out.error = StreamError
          /\ ~res.out.complete
          /\ res.out.onError = IF res.opts.onError = "none" THEN <<>> ELSE <<StreamError>>

\* C24: parseStream resolves to exactly one of two shapes: the decoded value
\* with no error and complete = true when the whole text is valid JSON, else
\* no data, the error E and complete = false; a supplied onError is called
\* exactly once with E in the failure case and never in the success case.
C24_ResolvesToTwoShapes == IsStreamCall => TwoShapes

\* The same for the calls whose onError returns and whose chunk size, if the
\* input is a string, is at least 1.
TwoShapesOtherwise ==
  IsStreamCall /\ res.opts.onError # "throw"
    /\ (res.input = "string" => chunkSizeOf(res.opts) >= 1) => TwoShapes


\* ---- C25 ----
\* The first j fragments of a source, joined in arrival order.
RECURSIVE Joined(_, _)
Joined(chunks, j) == IF j = 0 THEN <<>> ELSE Joined(chunks, j - 1) \o chunks[j]

\* The buffers a call has attempted to parse so far, one per fragment taken:
\* the fragments a reader delivered, or the pieces of chunkSize characters of
\* a string.
Attempted ==
  IF strm.pc # "idle"
  THEN [j \in 1..(Len(strm.chunks) - Len(strm.pending)) |->
          Buffer(Joined(strm.chunks, j), FALSE)]
  ELSE IF chunkSizeOf(res.opts) < 1 THEN <<>>
  ELSE [j \in 1..((TextLength(res.text) + chunkSizeOf(res.opts) - 1)
                    \div chunkSizeOf(res.opts)) |->
          PrefixByChars(res.text, j * chunkSizeOf(res.opts))]

\* The values of the attempts that decode, in order.
RECURSIVE Successes(_)
Successes(bufs) ==
  IF bufs = <<>> THEN <<>>
  ELSE LET p == parseBuffer(Head(bufs))
       IN (IF p.ok THEN <<p.value>> ELSE <<>>) \o Successes(Tail(bufs))

FirstOf(vs) == IF vs = <<>> THEN <<>> ELSE <<Head(vs)>>

\* What onProgress has been called with so far.
ProgressSoFar == IF strm.pc # "idle" THEN strm.progress ELSE res.out.progress
OnProgress == IF strm.pc # "idle" THEN strm.opts.onProgress ELSE res.opts.onProgress

\* The buffer holds the fragments taken so far, in arrival order.
BufferInArrivalOrder ==
  strm.pc # "idle" /\ strm.acquired = 1 =>
    strm.buf = Buffer(Joined(strm.chunks, Len(strm.chunks) - Len(strm.pending)), FALSE)

\* The terminal result is the final parse of the whole text, whatever the
\* attempts on the way gave: its value, or its error.
TerminalFromFinalParse ==
  IsStreamCall /\ (res.input = "stream" => strm.failure = NoFailure)
    /\ (res.input = "string" => chunkSizeOf(res.opts) >= 1) =>
    IF JSONparse(res.text).ok
    THEN res.out.kind = "resolved" /\ res.out.complete
           /\ res.out.data = JSONparse(res.text).value
    ELSE IF res.out.kind = "resolved"
    THEN ~res.out.complete /\ res.out.error = SyntaxError(res.text, JSONparse(res.text).pos)
    ELSE res.out.onError = <<SyntaxError(res.text, JSONparse(res.text).pos)>>

InStreamCall == strm.pc # "idle" \/ IsStreamCall

ReportedTwice == IsStreamCall /\ Len(res.out.progress) = 2


\* ---- C29 ----
\* A reader was obtained from the stream (getReader did not throw).
ReaderAcquired == strm.pc # "idle" /\ strm.acquired >= 1

\* C29: for ReadableStream input the reader is acquired once and its lock is
\* released exactly once on every way out of the read loop, at end-of-stream
\* and after a failed read alike, and before the terminal result or onError
\* is produced: no release while reading, one release and still no result
\* right after the loop, and every result finds acquired = released = 1.
C29_LockReleasedOnceBeforeResult ==
  ReaderAcquired =>
    /\ strm.acquired = 1
    /\ strm.pc = "reading" => strm.released = 0 /\ res = NoCall
    /\ strm.pc = "released" => strm.released = 1 /\ res = NoCall
    /\ strm.pc = "settled" => strm.released = 1 /\ IsStreamCall
    /\ IsStreamCall => strm.released = 1

\* A read failed part-way, the lock was released, and onError got the error.
C29_Witness ==
  /\ ReaderAcquired /\ IsStreamCall
  /\ strm.failure = Err("Error", "read failed") /\ strm.pending # <<>>
  /\ strm.released = 1 /\ res.out.onError # <<>>


\* ---- C30 ----
\* The same call with an onProgress that returns normally.
WithQuietProgress(opts) == [opts EXCEPT !.onProgress = "ok"]

\* What the call would have ended with had onProgress returned normally.
QuietOutcome ==
  IF res.input = "string" THEN parseStreamString(res.text, WithQuietProgress(res.opts))
  ELSE finish(WithQuietProgress(res.opts), strm.buf, strm.failure,
              Successes(Attempted))

\* C30: an exception thrown by onProgress is swallowed like a failed partial
\* parse: onError never receives it, the later fragments are still processed
\* (every later success is attempted and handed to onProgress), and the
\* terminal result is the one of the same call with a well-behaved onProgress.
C30_ThrowingProgressSwallowed ==
  InStreamCall /\ OnProgress = "throw" =>
    /\ ProgressSoFar = Successes(Attempted)
    /\ IsStreamCall =>
         /\ res.out = QuietOutcome
         /\ res.out.onError # <<>> =>
               \/ res.input = "stream" /\ strm.failure # NoFailure
               \/ res.input = "string" /\ chunkSizeOf(res.opts) < 1
               \/ ~JSONparse(res.text).ok

\* onProgress threw on the first fragment, a later fragment was processed and
\* the call still completed with the decoded value.
C30_Witness ==
  /\ IsStreamCall /\ res.opts.onProgress = "throw"
  /\ Len(res.out.progress) = 2
  /\ res.out.kind = "resolved" /\ res.out.complete /\ res.out.onError = <<>>


\* ---- C27 ----
IsSanitizeCall == res.op = "sanitizeKeys" /\ res.safeKeys

\* sanitizeKeys ran on every node of the tree it was given, so what holds of
\* its result on every tree of DecodedTrees holds of every node.
SharedUnlessStripped(v) ==
  /\ sanitizeKeys(v, TRUE).value = Stripped(v)
  /\ sanitizeKeys(v, TRUE).same <=> ~HasDangerousKey(v)

RECURSIVE NodesOf(_)
NodesOf(v) ==
  {v} \cup (IF v.t \in {"arr", "obj"}
            THEN UNION {NodesOf(EntriesOf(<<>>, v)[i].v) : i \in 1..Len(EntriesOf(<<>>, v))}
            ELSE {})

\* C27: key sanitization shares structure: every object or array whose
\* subtree has no dangerous key comes back as the very same reference (the
\* whole input when nothing is removed), and a new container is built only
\* for a node that lost a key or has a rebuilt descendant; the tree handed in
\* is left as it was.
C27_SanitizeSharesStructure ==
  IsSanitizeCall =>
    /\ res.out = sanitizeKeys(res.parsed, TRUE)
    /\ \A n \in NodesOf(res.parsed) : SharedUnlessStripped(n)

\* The same for the trees that hold no NaN.
HasNaN(v) == NaN \in NodesOf(v)
SanitizeSharesStructureWithoutNaN ==
  IsSanitizeCall /\ ~HasNaN(res.parsed) =>
    \A n \in NodesOf(res.parsed) : SharedUnlessStripped(n)

\* A tree whose one branch is rebuilt and whose other branch is shared.
SanitizePartlyShared ==
  /\ IsSanitizeCall /\ ~HasNaN(res.parsed) /\ ~res.out.same
  /\ \E n \in NodesOf(res.parsed) : n.t \in {"arr", "obj"} /\ sanitizeKeys(n, TRUE).same


\* ---- C28 ----
\* A call with an active date mode and the replacer that answers
\* [typeof value, value] at the key a, on an object whose field a is temporal.
IsProbedDateCall ==
  /\ IsStringifyCall /\ sopts.replacer = "typeof"
  /\ res.root = Ref(1) /\ heap[1].vals # <<>> /\ heap[1].vals[1].t = "date"

\* What the replacer must have been handed for a temporal value in each mode.
Converted(d) ==
  IF sopts.dates = "timestamp" THEN Num(d.ms) ELSE Str(toISOString(d.ms))

\* C28: with an active date mode and a custom replacer, the replacer is
\* called for a temporal field with the converted representation (the ISO
\* string in iso mode, the epoch milliseconds in timestamp mode), never with
\* the temporal value, and what it returns for the field is what is emitted.
C28_DatesBeforeReplacer ==
  IsProbedDateCall =>
    /\ res.out.kind = "text"
    /\ Lookup(Decoded(res.out.text), "a") =
         Arr(<<Str(IF sopts.dates = "timestamp" THEN "number" ELSE "string"),
               Converted(heap[1].vals[1])>>)

\* Such a call in iso mode, its field a emitted as the replacer returned it.
C28_Witness ==
  /\ IsProbedDateCall /\ sopts.dates = "iso" /\ res.op = "stringify"
  /\ heap[1].vals = <<DateV(5), Num(1)>>
  /\ res.out.text = Encode(Obj(<<Field("a", Arr(<<Str("string"), Str(toISOString(5))>>)),
                                 Field("b", Num(1))>>))

\* The same in timestamp mode.
ProbedTimestamp ==
  /\ IsProbedDateCall /\ sopts.dates = "timestamp"
  /\ Lookup(Decoded(res.out.text), "a") = Arr(<<Str("number"), Num(5)>>)


\* ---- C26 ----
\* A decoded value written out with every member of a non-empty container on
\* a line of its own, indented by width spaces per level.
RECURSIVE Indented(_, _, _)
RECURSIVE IndentedMembers(_, _, _, _)
Indented(v, width, level) ==
  IF v.t \notin {"arr", "obj"} THEN Encode(v)
  ELSE IF EntriesOf(<<>>, v) = <<>> THEN Encode(v)
  ELSE <<Tok(IF v.t = "arr" THEN "[" ELSE "{")>>
         \o IndentedMembers(v, width, level + 1, 1)
         \o <<Newline(level * width), Tok(IF v.t = "arr" THEN "]" ELSE "}")>>
IndentedMembers(v, width, level, i) ==
  IF i > Len(EntriesOf(<<>>, v)) THEN <<>>
  ELSE (IF i > 1 THEN <<Tok(",")>> ELSE <<>>)
         \o <<Newline(level * width)>>
         \o (IF v.t = "obj" THEN <<TStr(EntriesOf(<<>>, v)[i].k), Tok(":"), Space>> ELSE <<>>)
         \o Indented(EntriesOf(<<>>, v)[i].v, width, level)
         \o IndentedMembers(v, width, level, i + 1)

IsFormatOfString == res.op = "format" /\ res.input = "string"
IsMinifyOfString == res.op = "minify" /\ res.input = "string"
GivenWidth == IF res.options = Undef THEN 2 ELSE res.options.n

\* C26: for a string s, format(s) and minify(s) return null when s is not
\* valid JSON, and for valid JSON the re-serialization of the decoded value:
\* format indented by the default width 2 or the given width, minify compact
\* with no white space between the tokens.
C26_FormatMinifyStrings ==
  /\ IsFormatOfString =>
       IF ~JSONparse(res.text).ok THEN res.out.kind = "null"
       ELSE /\ res.out.kind = "text"
            /\ res.out.text = Indented(JSONparse(res.text).value, GivenWidth, 0)
  /\ IsMinifyOfString =>
       IF ~JSONparse(res.text).ok THEN res.out.kind = "null"
       ELSE /\ res.out.kind = "text"
            /\ res.out.text = Encode(JSONparse(res.text).value)

\* The same for the texts that do not decode to null, and for format with a
\* width from 1 to MaxGap.
FormatMinifyOtherwise ==
  /\ (IsFormatOfString \/ IsMinifyOfString) /\ ~JSONparse(res.text).ok =>
       res.out.kind = "null"
  /\ (IsFormatOfString \/ IsMinifyOfString) /\ JSONparse(res.text).ok
       /\ JSONparse(res.text).value # Null =>
       /\ res.out.kind = "text"
       /\ IsMinifyOfString => res.out.text = Encode(JSONparse(res.text).value)
       /\ IsFormatOfString /\ GivenWidth \in 1..MaxGap =>
            res.out.text = Indented(JSONparse(res.text).value, GivenWidth, 0)

\* format of a nested document, each level indented by the given width.
FormattedNested ==
  /\ IsFormatOfString /\ res.options = Num(4)
  /\ res.text = Encode(Obj(<<Field("a", Arr(<<Num(1)>>))>>))
  /\ res.out.text = <<Tok("{"), Newline(4), TStr("a"), Tok(":"), Space, Tok("["),
                      Newline(8), TNum(1), Newline(4), Tok("]"), Newline(0), Tok("}")>>

====
